---- MODULE Spec2Model ----
(***************************************************************************)
(* The lemurs byte machine (src/src/machine.rs): program memory, program   *)
(* counter, register file and the caller's output sink, driven by          *)
(* Machine::run.  A u32 (Value) is written as its two base-65536 limbs,    *)
(* most significant first, a u64 (WideValue) as four; TLC's integers are   *)
(* too narrow for the numbers themselves.  to_be_bytes / from_be_bytes     *)
(* convert between limbs and bytes by division and multiplication.         *)
(***************************************************************************)
EXTENDS Integers, Sequences, FiniteSets, TLC

\* ------------------------------------------------------------------ bounds
MaxLen == 3
MaxSteps == 6
MaxRun == 2

\* ------------------------------------------------------------- constants
RegisterFileSize == 256
ValueBytes == 4
WideValueBytes == 8

Byte == 0..255

VARIABLES
    memory,           \* Machine.memory, a sequence: memory[i + 1] is the code's memory[i]
    program_counter,  \* Machine.program_counter
    register_file,    \* Machine.register_file, a sequence read with At like memory
    output,           \* the caller's sink: the bytes written so far
    fault,            \* "none", or the panic that ended the process
    remaining,        \* iterations the for loop of the current run call still makes
    ibytes,           \* bytes the current fetch has read so far
    instr,            \* the local i of run: the instruction fetch returned
    ipos,             \* program_counter at which the current instruction's opcode was read
    last,             \* the instruction executed last: its bytes, where its opcode was,
                      \* and the machine and sink right before execute
    mem0,             \* the bytes Machine::new was given
    total,            \* cycles completed since construction
    num_steps,        \* argument of the current (or last) run call
    cycles,           \* cycles the current (or last) run call has completed
    args,             \* env::args() of the process (interpret.rs main)
    file,             \* what reading args[1] yields: bytes, or a text as lines of words
    input,            \* the local `memory` of main
    printed,          \* what main has printed
    main,             \* where main is
    assembler,        \* the locals data, labels and label_uses of assemble
    lines_done,       \* lines of the text that assemble has consumed
    uses_done,        \* label uses that pass 2 of assemble has consumed
    population,       \* the Instance::new calls of the application's worker pool
    mutation,         \* the program p that new_programs is being filled with, and
                      \* the mutate_program calls made on it
    audio_queue,      \* AudioQueue: current_index and what sender has sent
    aplay_writer      \* the locals of the writer thread, and what it has written

\* the variables of main, of the assembler and of the application
avars == <<args, file, input, printed, main, assembler, lines_done, uses_done, population,
           mutation, audio_queue, aplay_writer>>

vars == <<memory, program_counter, register_file, output, fault, remaining,
          ibytes, instr, ipos, last, mem0, total, num_steps, cycles, avars>>

\* ------------------------------------------------------------ the machine
\* memory[i] and register_file[i] of the code
At(mem, i) == mem[i + 1]

\* the sequence f as a tuple of its elements, each evaluated once
Tuple(f) == f \o <<>>

\* F(e), with e evaluated once whatever F does with it
Eager(e, F(_)) == CHOOSE r \in {F(v) : v \in {e}} : TRUE

\* Machine::new without its assertion
new_unchecked(mem) ==
    [memory |-> mem, program_counter |-> 0,
     register_file |-> Tuple([k \in 1..RegisterFileSize |-> 0]),
     output |-> <<>>, fault |-> "none"]

\* Machine::new: the assertion, then the three fields
new(mem) ==
    IF Len(mem) = 0
    THEN [memory |-> mem, program_counter |-> 0,
          register_file |-> Tuple([k \in 1..RegisterFileSize |-> 0]),
          output |-> <<>>, fault |-> "assert"]
    ELSE [memory |-> mem, program_counter |-> 0,
          register_file |-> Tuple([k \in 1..RegisterFileSize |-> 0]),
          output |-> <<>>, fault |-> "none"]

\* the machine and its sink as one value
self == [memory |-> memory, program_counter |-> program_counter,
         register_file |-> register_file, output |-> output, fault |-> fault]

\* ------------------------------------------------------------ conversions
\* u32::to_be_bytes / u64::to_be_bytes on limbs
to_be_bytes(v) ==
    Tuple([k \in 1..(2 * Len(v)) |->
        IF k % 2 = 1 THEN v[(k + 1) \div 2] \div 256 ELSE v[k \div 2] % 256])

\* the bytes taken least significant first
from_le_bytes(bytes) ==
    Tuple([k \in 1..(Len(bytes) \div 2) |->
        bytes[Len(bytes) - 2 * k + 2] * 256 + bytes[Len(bytes) - 2 * k + 1]])

\* u32::from_be_bytes / u64::from_be_bytes
from_be_bytes(bytes) ==
    Tuple([k \in 1..(Len(bytes) \div 2) |-> bytes[2 * k - 1] * 256 + bytes[2 * k]])

\* the address bytes taken in the other order
bytes_to_addr_little_endian(b0, b1) == b1 * 256 + b0

\* u16::from_be_bytes
bytes_to_addr(b0, b1) == b0 * 256 + b1

\* the low half left unmasked
byte_to_nibbles_unmasked(b) == <<(b \div 16) % 16, b>>

byte_to_nibbles(b) == <<(b \div 16) % 16, b % 16>>

\* ------------------------------------------------- integer arithmetic (std)
\* n limbs holding the number x < 65536
small(n, x) == Tuple([k \in 1..n |-> IF k = n THEN x ELSE 0])

\* u32::MAX / u64::MAX
MAX(n) == Tuple([k \in 1..n |-> 65535])

\* u32::BITS / u64::BITS
BITS(v) == 16 * Len(v)

\* bit i of v, bit 0 the least significant
bit(v, i) == (v[Len(v) - (i \div 16)] \div (2 ^ (i % 16))) % 2

RECURSIVE weigh(_, _, _)
weigh(f, base, j) == IF j = 16 THEN 0 ELSE f[base + j] * (2 ^ j) + weigh(f, base, j + 1)

\* the n limbs whose bits are f[0..16n-1]
from_bits(n, f) == Tuple([k \in 1..n |-> weigh(f, 16 * (n - k), 0)])

RECURSIVE ones_below(_, _)
ones_below(v, i) == IF i = 0 THEN 0 ELSE bit(v, i - 1) + ones_below(v, i - 1)

count_ones(v) == ones_below(v, BITS(v))
count_zeros(v) == BITS(v) - count_ones(v)

not(v) == from_bits(Len(v), [i \in 0..(BITS(v) - 1) |-> 1 - bit(v, i)])
reverse_bits(v) == from_bits(Len(v), [i \in 0..(BITS(v) - 1) |-> bit(v, BITS(v) - 1 - i)])
bitand(a, b) == from_bits(Len(a), [i \in 0..(BITS(a) - 1) |-> bit(a, i) * bit(b, i)])
bitor(a, b) ==
    from_bits(Len(a), [i \in 0..(BITS(a) - 1) |-> IF bit(a, i) + bit(b, i) > 0 THEN 1 ELSE 0])
bitxor(a, b) == from_bits(Len(a), [i \in 0..(BITS(a) - 1) |-> (bit(a, i) + bit(b, i)) % 2])

\* a << s and a >> s for 0 <= s < BITS
shl(a, s) ==
    from_bits(Len(a), [i \in 0..(BITS(a) - 1) |-> IF i >= s THEN bit(a, i - s) ELSE 0])
shr(a, s) ==
    from_bits(Len(a), [i \in 0..(BITS(a) - 1) |-> IF i + s < BITS(a) THEN bit(a, i + s) ELSE 0])

\* `b as u32`: the low 32 bits
as_u32(b) == <<b[Len(b) - 1], b[Len(b)]>>

\* checked_shl / checked_shr with unwrap_or(0): None when rhs >= BITS
checked_shl_or_0(a, rhs) ==
    IF rhs[1] = 0 /\ rhs[2] < BITS(a) THEN shl(a, rhs[2]) ELSE small(Len(a), 0)
checked_shr_or_0(a, rhs) ==
    IF rhs[1] = 0 /\ rhs[2] < BITS(a) THEN shr(a, rhs[2]) ELSE small(Len(a), 0)

\* wrapping_shl / wrapping_shr: the amount is rhs & (BITS - 1)
wrapping_shl(a, rhs) == shl(a, rhs[2] % BITS(a))
wrapping_shr(a, rhs) == shr(a, rhs[2] % BITS(a))

\* rotate_left / rotate_right: the amount is n % BITS
rotate_left(a, n) ==
    from_bits(Len(a), [i \in 0..(BITS(a) - 1) |->
        bit(a, (i + BITS(a) - (n[2] % BITS(a))) % BITS(a))])
rotate_right(a, n) ==
    from_bits(Len(a), [i \in 0..(BITS(a) - 1) |-> bit(a, (i + (n[2] % BITS(a))) % BITS(a))])

\* carry into limb k of a + b
RECURSIVE carry_in(_, _, _)
carry_in(a, b, k) ==
    IF k = Len(a) THEN 0 ELSE (a[k + 1] + b[k + 1] + carry_in(a, b, k + 1)) \div 65536

wrapping_add(a, b) ==
    Tuple([k \in 1..Len(a) |-> (a[k] + b[k] + carry_in(a, b, k)) % 65536])
add_overflows(a, b) == a[1] + b[1] + carry_in(a, b, 1) >= 65536
\* the sum left to wrap
saturating_add_unclamped(a, b) == wrapping_add(a, b)
saturating_add(a, b) == IF add_overflows(a, b) THEN MAX(Len(a)) ELSE wrapping_add(a, b)

\* borrow out of limb k + 1 of a - b
RECURSIVE borrow_in(_, _, _)
borrow_in(a, b, k) ==
    IF k = Len(a) THEN 0
    ELSE IF a[k + 1] - b[k + 1] - borrow_in(a, b, k + 1) < 0 THEN 1 ELSE 0

\* b - a
wrapping_sub_reversed(a, b) ==
    Tuple([k \in 1..Len(a) |-> (65536 + b[k] - a[k] - borrow_in(b, a, k)) % 65536])

wrapping_sub(a, b) ==
    Tuple([k \in 1..Len(a) |-> (65536 + a[k] - b[k] - borrow_in(a, b, k)) % 65536])
sub_overflows(a, b) == a[1] - b[1] - borrow_in(a, b, 1) < 0
saturating_sub(a, b) == IF sub_overflows(a, b) THEN small(Len(a), 0) ELSE wrapping_sub(a, b)

\* a < b
lt(a, b) == \E k \in 1..Len(a) : a[k] < b[k] /\ \A j \in 1..(k - 1) : a[j] = b[j]
le(a, b) == ~lt(b, a)
gt(a, b) == lt(b, a)
ge(a, b) == ~lt(a, b)

abs_diff(a, b) == IF lt(a, b) THEN wrapping_sub(b, a) ELSE wrapping_sub(a, b)
\* the divisor left as it is
max_unfloored(a, b) == a

max(a, b) == IF lt(a, b) THEN b ELSE a

\* sum of x[i] * y[c - i]: column c of the schoolbook product of the digit
\* sequences x and y (base 256, most significant first), from term i on
RECURSIVE column(_, _, _, _)
column(x, y, c, i) ==
    IF i > c \/ i >= Len(x) THEN 0
    ELSE (IF c - i < Len(y) THEN x[Len(x) - i] * y[Len(y) - (c - i)] ELSE 0)
         + column(x, y, c, i + 1)

\* the digits of the full product, most significant first: st.digits holds
\* columns 0..st.c-1, st.carry the carry into column st.c
RECURSIVE product_digits(_, _, _)
product_digits(x, y, st) ==
    IF st.c = Len(x) + Len(y) THEN st.digits
    ELSE Eager(column(x, y, st.c, 0) + st.carry,
               LAMBDA t : Eager([c |-> st.c + 1, carry |-> t \div 256,
                                 digits |-> <<t % 256>> \o st.digits],
                                LAMBDA st2 : product_digits(x, y, st2)))

\* a * b as a number of twice the width
full_mul(a, b) ==
    Eager(<<to_be_bytes(a), to_be_bytes(b)>>,
          LAMBDA xy : from_be_bytes(product_digits(xy[1], xy[2],
                                                   [c |-> 0, carry |-> 0, digits |-> <<>>])))

\* the low half of the product, and whether its high half is not 0
low_half(p) == SubSeq(p, (Len(p) \div 2) + 1, Len(p))
high_half_set(p) == SubSeq(p, 1, Len(p) \div 2) # small(Len(p) \div 2, 0)

wrapping_mul(a, b) == low_half(full_mul(a, b))
mul_overflows(a, b) == high_half_set(full_mul(a, b))
saturating_mul(a, b) ==
    Eager(full_mul(a, b), LAMBDA p : IF high_half_set(p) THEN MAX(Len(a)) ELSE low_half(p))

\* long division: st is the quotient and remainder after the bits above i of a;
\* both carry one limb more than a
divide_bit(a, d, i, st) ==
    Eager(<<wrapping_add(st.q, st.q),
            wrapping_add(wrapping_add(st.r, st.r), small(Len(d), bit(a, i)))>>,
          LAMBDA qr : IF lt(qr[2], d) THEN [q |-> qr[1], r |-> qr[2]]
                      ELSE [q |-> wrapping_add(qr[1], small(Len(d), 1)),
                            r |-> wrapping_sub(qr[2], d)])

\* bits hi down to lo of a, the upper half of them first
RECURSIVE divide(_, _, _, _, _)
divide(a, d, hi, lo, st) ==
    IF hi = lo THEN divide_bit(a, d, hi, st)
    ELSE Eager(divide(a, d, hi, (hi + lo + 1) \div 2, st),
               LAMBDA st2 : divide(a, d, ((hi + lo + 1) \div 2) - 1, lo, st2))

divide_all(a, d) ==
    Eager(<<a, <<0>> \o d>>,
          LAMBDA ad : divide(ad[1], ad[2], BITS(ad[1]) - 1, 0,
                             [q |-> small(Len(ad[2]), 0), r |-> small(Len(ad[2]), 0)]))

div(a, d) == Eager(divide_all(a, d), LAMBDA res : SubSeq(res.q, 2, Len(res.q)))
rem(a, d) == Eager(divide_all(a, d), LAMBDA res : SubSeq(res.r, 2, Len(res.r)))

\* the index of the highest set bit of the u32 exp # 0
top_bit(exp) == CHOOSE t \in 0..31 : bit(exp, t) = 1 /\ \A u \in (t + 1)..31 : bit(exp, u) = 0

\* the loop of checked_pow / wrapping_pow, from bit st.i of exp up to its top
\* bit: st.acc the product so far, st.base the square to use next, st.o
\* whether a multiplication has overflowed
\* if bit st.i of exp is set: acc = acc * base
pow_multiply(exp, st) ==
    IF bit(exp, st.i) = 0 THEN st
    ELSE Eager(full_mul(st.acc, st.base),
               LAMBDA p : [st EXCEPT !.acc = low_half(p), !.o = @ \/ high_half_set(p)])

\* base = base * base, and on to the next bit
pow_square(st) ==
    Eager(full_mul(st.base, st.base),
          LAMBDA p : [st EXCEPT !.base = low_half(p), !.o = @ \/ high_half_set(p),
                                !.i = @ + 1])

\* one iteration: multiply, and unless this is the top bit, square
pow_iteration(exp, top, st) ==
    Eager(pow_multiply(exp, st), LAMBDA st2 : IF st2.i = top THEN st2 ELSE pow_square(st2))

\* the iterations for bits lo..hi, the lower half of them first
RECURSIVE pow_loop(_, _, _, _, _)
pow_loop(exp, top, lo, hi, st) ==
    IF lo = hi THEN pow_iteration(exp, top, st)
    ELSE Eager(pow_loop(exp, top, lo, (lo + hi) \div 2, st),
               LAMBDA st2 : pow_loop(exp, top, ((lo + hi) \div 2) + 1, hi, st2))

\* the loop from bit 0, for exp # 0
pow(a, exp) ==
    Eager(<<a, exp, top_bit(exp)>>,
          LAMBDA t : pow_loop(t[2], t[3], 0, t[3],
                              [base |-> t[1], acc |-> small(Len(t[1]), 1), o |-> FALSE,
                               i |-> 0]))

wrapping_pow(a, exp) ==
    IF exp = <<0, 0>> THEN small(Len(a), 1) ELSE pow(a, exp).acc
saturating_pow(a, exp) ==
    IF exp = <<0, 0>> THEN small(Len(a), 1)
    ELSE Eager(pow(a, exp), LAMBDA p : IF p.o THEN MAX(Len(a)) ELSE p.acc)

as_value(n, c) == small(n, IF c THEN 1 ELSE 0)

\* the match of Machine::evaluate_operation
operation(op, a, b) ==
    CASE op = "Copy" -> b
      [] op = "Not" -> not(b)
      [] op = "Neg" -> wrapping_sub(MAX(2), b)
      [] op = "Reverse" -> reverse_bits(b)
      [] op = "Numzeros" -> small(2, count_zeros(b))
      [] op = "Numones" -> small(2, count_ones(b))
      [] op = "And" -> bitand(a, b)
      [] op = "Or" -> bitor(a, b)
      [] op = "Xor" -> bitxor(a, b)
      [] op = "Shl" -> checked_shl_or_0(a, as_u32(b))
      [] op = "Shlm" -> wrapping_shl(a, as_u32(b))
      [] op = "Shr" -> checked_shr_or_0(a, as_u32(b))
      [] op = "Shrm" -> wrapping_shr(a, as_u32(b))
      [] op = "Rotl" -> rotate_left(a, as_u32(b))
      [] op = "Rotr" -> rotate_right(a, as_u32(b))
      [] op = "Addc" -> saturating_add(a, b)
      [] op = "Addm" -> wrapping_add(a, b)
      [] op = "Subc" -> saturating_sub(a, b)
      [] op = "Subm" -> wrapping_sub(a, b)
      [] op = "Absdiff" -> abs_diff(a, b)
      [] op = "Mulc" -> saturating_mul(a, b)
      [] op = "Mulm" -> wrapping_mul(a, b)
      [] op = "Div" -> div(a, max(b, small(2, 1)))
      [] op = "Mod" -> rem(a, max(b, small(2, 1)))
      [] op = "Powm" -> saturating_pow(a, as_u32(b))
      [] op = "Powc" -> wrapping_pow(a, as_u32(b))
      [] op = "Gt" -> as_value(2, gt(a, b))
      [] op = "Ge" -> as_value(2, ge(a, b))
      [] op = "Lt" -> as_value(2, lt(a, b))
      [] op = "Le" -> as_value(2, le(a, b))
      [] op = "Eq" -> as_value(2, a = b)
      [] op = "Ne" -> as_value(2, a # b)

\* Machine::evaluate_operation
evaluate_operation(op, a, b) == Eager(<<a, b>>, LAMBDA ab : operation(op, ab[1], ab[2]))

\* the match of Machine::evaluate_operation_wide
operation_wide(op, a, b) ==
    CASE op = "Copy" -> b
      [] op = "Not" -> not(b)
      [] op = "Neg" -> wrapping_sub(MAX(4), b)
      [] op = "Reverse" -> reverse_bits(b)
      [] op = "Numzeros" -> small(4, count_zeros(b))
      [] op = "Numones" -> small(4, count_ones(b))
      [] op = "And" -> bitand(a, b)
      [] op = "Or" -> bitor(a, b)
      [] op = "Xor" -> bitxor(a, b)
      [] op = "Shl" -> checked_shl_or_0(a, as_u32(b))
      [] op = "Shlm" -> wrapping_shl(a, as_u32(b))
      [] op = "Shr" -> checked_shr_or_0(a, as_u32(b))
      [] op = "Shrm" -> wrapping_shr(a, as_u32(b))
      [] op = "Rotl" -> rotate_left(a, as_u32(b))
      [] op = "Rotr" -> rotate_right(a, as_u32(b))
      [] op = "Addc" -> saturating_add(a, b)
      [] op = "Addm" -> wrapping_add(a, b)
      [] op = "Subc" -> saturating_sub(a, b)
      [] op = "Subm" -> wrapping_sub(a, b)
      [] op = "Absdiff" -> abs_diff(a, b)
      [] op = "Mulc" -> saturating_mul(a, b)
      [] op = "Mulm" -> wrapping_mul(a, b)
      [] op = "Div" -> div(a, max(b, small(4, 1)))
      [] op = "Mod" -> rem(a, max(b, small(4, 1)))
      [] op = "Powm" -> saturating_pow(a, as_u32(b))
      [] op = "Powc" -> wrapping_pow(a, as_u32(b))
      [] op = "Gt" -> as_value(4, gt(a, b))
      [] op = "Ge" -> as_value(4, ge(a, b))
      [] op = "Lt" -> as_value(4, lt(a, b))
      [] op = "Le" -> as_value(4, le(a, b))
      [] op = "Eq" -> as_value(4, a = b)
      [] op = "Ne" -> as_value(4, a # b)

\* Machine::evaluate_operation_wide
evaluate_operation_wide(op, a, b) ==
    Eager(<<a, b>>, LAMBDA ab : operation_wide(op, ab[1], ab[2]))

\* ------------------------------------------------------------ instructions
\* a decoded Instruction; the fields a family does not have are 0 / "none" / <<>>
\* the two register fields taken for each other
Instruction_registers_swapped(family, op, a, b, addr, imm) ==
    [family |-> family, op |-> op, a |-> b, b |-> a, addr |-> addr, imm |-> imm]

Instruction(family, op, a, b, addr, imm) ==
    [family |-> family, op |-> op, a |-> a, b |-> b, addr |-> addr, imm |-> imm]

NoInstr == Instruction("none", "none", 0, 0, 0, <<>>)

\* Machine::decode_operation
decode_operation(n) ==
    CASE n = 0 -> "Copy"
      [] n = 1 -> "Not"
      [] n = 2 -> "Neg"
      [] n = 3 -> "Reverse"
      [] n = 4 -> "Numzeros"
      [] n = 5 -> "Numones"
      [] n = 6 -> "And"
      [] n = 7 -> "Or"
      [] n = 8 -> "Xor"
      [] n = 9 -> "Shl"
      [] n = 10 -> "Shlm"
      [] n = 11 -> "Shr"
      [] n = 12 -> "Shrm"
      [] n = 13 -> "Rotl"
      [] n = 14 -> "Rotr"
      [] n = 15 -> "Addc"
      [] n = 16 -> "Addm"
      [] n = 17 -> "Subc"
      [] n = 18 -> "Subm"
      [] n = 19 -> "Absdiff"
      [] n = 20 -> "Mulc"
      [] n = 21 -> "Mulm"
      [] n = 22 -> "Div"
      [] n = 23 -> "Mod"
      [] n = 24 -> "Powm"
      [] n = 25 -> "Powc"
      [] n = 26 -> "Gt"
      [] n = 27 -> "Ge"
      [] n = 28 -> "Lt"
      [] n = 29 -> "Le"
      [] n = 30 -> "Eq"
      [] n = 31 -> "Ne"
      [] OTHER -> "panic"

\* the operation index with the width bit taken for the fifth bit: (n0a & 2) << 4
operation_index_wrong_bit(n0a, n0b) == ((n0a \div 2) % 2) * 32 + n0b

\* the operation index fetch hands to decode_operation: ((n0a & 1) << 4) | n0b
operation_index(n0a, n0b) == (n0a % 2) * 16 + n0b

\* the arm of fetch's match on n0a (and, for 8..15, of the match on n0a >> 1)
family(n0a) ==
    CASE n0a = 0 -> "Output"
      [] n0a = 1 -> "OutputW"
      [] n0a = 2 -> "LoadMem"
      [] n0a = 3 -> "LoadMemW"
      [] n0a = 4 -> "StoreMem"
      [] n0a = 5 -> "StoreMemW"
      [] n0a = 6 -> "Jmp"
      [] n0a = 7 -> "Jo"
      [] n0a \in 8..15 ->
            (CASE n0a \div 2 = 4 -> "Op"
               [] n0a \div 2 = 5 -> "OpW"
               [] n0a \div 2 = 6 -> "OpImm"
               [] n0a \div 2 = 7 -> "OpImmW"
               [] OTHER -> "panic")
      [] OTHER -> "panic"

\* every immediate taken to be as long as a Value
instruction_length_narrow_immediate(b0) ==
    LET f == family(byte_to_nibbles(b0)[1])
    IN  CASE f \in {"Output", "OutputW"} -> 1
          [] f \in {"LoadMem", "LoadMemW", "StoreMem", "StoreMemW", "Jmp", "Jo"} -> 3
          [] f \in {"Op", "OpW"} -> 2
          [] f \in {"OpImm", "OpImmW"} -> 2 + ValueBytes
          [] OTHER -> 1

\* how many bytes fetch reads for an instruction whose opcode byte is b0
instruction_length(b0) ==
    LET f == family(byte_to_nibbles(b0)[1])
    IN  CASE f \in {"Output", "OutputW"} -> 1
          [] f \in {"LoadMem", "LoadMemW", "StoreMem", "StoreMemW", "Jmp", "Jo"} -> 3
          [] f \in {"Op", "OpW"} -> 2
          [] f = "OpImm" -> 2 + ValueBytes
          [] f = "OpImmW" -> 2 + WideValueBytes
          [] OTHER -> 1

\* the Instruction fetch builds from the bytes it has read
decode(bytes) ==
    LET n0a == byte_to_nibbles(bytes[1])[1]
        n0b == byte_to_nibbles(bytes[1])[2]
        f == family(n0a)
    IN  CASE f \in {"Output", "OutputW"} -> Instruction(f, "none", n0b, 0, 0, <<>>)
          [] f \in {"LoadMem", "LoadMemW", "StoreMem", "StoreMemW", "Jo"} ->
                Instruction(f, "none", n0b, 0, bytes_to_addr(bytes[2], bytes[3]), <<>>)
          [] f = "Jmp" -> Instruction(f, "none", 0, 0, bytes_to_addr(bytes[2], bytes[3]), <<>>)
          [] f \in {"Op", "OpW"} ->
                Instruction(f, decode_operation(operation_index(n0a, n0b)),
                            byte_to_nibbles(bytes[2])[1], byte_to_nibbles(bytes[2])[2], 0, <<>>)
          [] f \in {"OpImm", "OpImmW"} ->
                Instruction(f, decode_operation(operation_index(n0a, n0b)),
                            byte_to_nibbles(bytes[2])[1], byte_to_nibbles(bytes[2])[2], 0,
                            from_be_bytes(SubSeq(bytes, 3, Len(bytes))))
          [] OTHER -> Instruction("panic", "none", 0, 0, 0, <<>>)

\* fetch or decode_operation reached a panic!() arm
panics(i) == i.family = "panic" \/ i.op = "panic"

\* next_instruction_byte without the wrap to 0
next_instruction_byte_no_wrap(m) ==
    IF m.program_counter \notin 0..(Len(m.memory) - 1)
    THEN [b |-> 0, m |-> [m EXCEPT !.fault = "index"]]
    ELSE [b |-> At(m.memory, m.program_counter),
          m |-> [m EXCEPT !.program_counter = m.program_counter + 1]]

\* Machine::next_instruction_byte: the byte read and the machine after it
next_instruction_byte(m) ==
    IF m.program_counter \notin 0..(Len(m.memory) - 1)
    THEN [b |-> 0, m |-> [m EXCEPT !.fault = "index"]]
    ELSE [b |-> At(m.memory, m.program_counter),
          m |-> [m EXCEPT !.program_counter =
                    IF m.program_counter + 1 >= Len(m.memory) THEN 0
                    ELSE m.program_counter + 1]]

\* fetch has read all the bytes of the instruction
complete(bytes) == bytes # <<>> /\ Len(bytes) >= instruction_length(bytes[1])

\* Machine::fetch as one call: the bytes it reads and the machine after them
RECURSIVE fetch_bytes(_)
fetch_bytes(st) ==
    IF complete(st.bytes) \/ st.m.fault # "none" THEN st
    ELSE Eager(next_instruction_byte(st.m),
               LAMBDA r : IF r.m.fault # "none" THEN [m |-> r.m, bytes |-> st.bytes]
                          ELSE Eager([m |-> r.m, bytes |-> Append(st.bytes, r.b)],
                                     LAMBDA st2 : fetch_bytes(st2)))

fetch(m) ==
    Eager(fetch_bytes([m |-> m, bytes |-> <<>>]),
          LAMBDA f : IF f.m.fault # "none" THEN [m |-> f.m, i |-> NoInstr]
                     ELSE Eager(decode(f.bytes),
                                LAMBDA i : IF panics(i)
                                           THEN [m |-> [f.m EXCEPT !.fault = "panic"],
                                                 i |-> NoInstr]
                                           ELSE [m |-> f.m, i |-> i]))

\* ------------------------------------------------------ registers, memory
\* every index register.0 * num_bytes + i lies in the register file
register_in_bounds(id, num_bytes) == id * num_bytes + (num_bytes - 1) < RegisterFileSize

read_register(rf, register) ==
    from_be_bytes([i \in 1..ValueBytes |-> At(rf, register * ValueBytes + (i - 1))])

read_register_wide(rf, register) ==
    from_be_bytes([i \in 1..WideValueBytes |-> At(rf, register * WideValueBytes + (i - 1))])

\* register writes that land in the upper half of the register file
write_register_bytes_upper_half(rf, first, bytes, i) ==
    Tuple([k \in 1..Len(rf) |->
        IF k - 1 \in (first + 128)..(first + 127 + Len(bytes)) THEN bytes[k - 128 - first]
        ELSE rf[k]])

\* the loop of write_register / write_register_wide from its i-th byte on
RECURSIVE write_register_bytes(_, _, _, _)
write_register_bytes(rf, first, bytes, i) ==
    IF i > Len(bytes) THEN rf
    ELSE write_register_bytes([rf EXCEPT ![first + (i - 1) + 1] = bytes[i]], first, bytes, i + 1)

\* a narrow write placed by the wide offset law
write_register_wide_offset(rf, register, value) ==
    Eager(to_be_bytes(value),
          LAMBDA bytes : write_register_bytes(rf, register * WideValueBytes, bytes, 1))

write_register(rf, register, value) ==
    Eager(to_be_bytes(value),
          LAMBDA bytes : write_register_bytes(rf, register * ValueBytes, bytes, 1))

\* a wide write placed by the narrow offset law
write_register_wide_narrow_offset(rf, register, value) ==
    Eager(to_be_bytes(value),
          LAMBDA bytes : write_register_bytes(rf, register * ValueBytes, bytes, 1))

write_register_wide(rf, register, value) ==
    Eager(to_be_bytes(value),
          LAMBDA bytes : write_register_bytes(rf, register * WideValueBytes, bytes, 1))

\* a load that takes the bytes of the window as little-endian
read_memory_little_endian(mem, address) ==
    from_be_bytes([i \in 1..ValueBytes |-> At(mem, (address + (ValueBytes - i)) % Len(mem))])

read_memory(mem, address) ==
    from_be_bytes([i \in 1..ValueBytes |-> At(mem, (address + (i - 1)) % Len(mem))])

read_memory_wide(mem, address) ==
    from_be_bytes([i \in 1..WideValueBytes |-> At(mem, (address + (i - 1)) % Len(mem))])

\* a store that stops at the end of memory instead of wrapping
RECURSIVE write_bytes_truncating(_, _, _, _)
write_bytes_truncating(mem, address, bytes, i) ==
    IF i > Len(bytes) \/ address + (i - 1) >= Len(mem) THEN mem
    ELSE write_bytes_truncating([mem EXCEPT ![address + (i - 1) + 1] = bytes[i]],
                                address, bytes, i + 1)

\* the loop of write_memory / write_memory_wide from its i-th byte on
RECURSIVE write_bytes(_, _, _, _)
write_bytes(mem, address, bytes, i) ==
    IF i > Len(bytes) THEN mem
    ELSE write_bytes([mem EXCEPT ![((address + (i - 1)) % Len(mem)) + 1] = bytes[i]],
                     address, bytes, i + 1)

write_memory(mem, address, value) ==
    Eager(to_be_bytes(value), LAMBDA bytes : write_bytes(mem, address, bytes, 1))

\* a wide store that also clears the cell after its window
write_memory_wide_one_more(mem, address, value) ==
    Eager(to_be_bytes(value), LAMBDA bytes : write_bytes(mem, address, Append(bytes, 0), 1))

write_memory_wide(mem, address, value) ==
    Eager(to_be_bytes(value), LAMBDA bytes : write_bytes(mem, address, bytes, 1))

\* the target of Jmp and of a taken Jo
jump_target(mem, address) == address % Len(mem)

\* the opposite test
is_even(va) == va[Len(va)] % 2 = 0

\* Jo's test: va & 1 == 1
is_odd(va) == va[Len(va)] % 2 = 1

\* the register accesses of execute stay inside the register file
registers_in_bounds(i) ==
    CASE i.family \in {"Output", "LoadMem", "StoreMem", "Jo"} ->
            register_in_bounds(i.a, ValueBytes)
      [] i.family \in {"OutputW", "LoadMemW", "StoreMemW"} ->
            register_in_bounds(i.a, WideValueBytes)
      [] i.family \in {"Op", "OpImm"} ->
            register_in_bounds(i.a, ValueBytes) /\ register_in_bounds(i.b, ValueBytes)
      [] i.family \in {"OpW", "OpImmW"} ->
            register_in_bounds(i.a, WideValueBytes) /\ register_in_bounds(i.b, WideValueBytes)
      [] OTHER -> TRUE

\* the most significant byte instead of the least
output_byte_high(value) == value[1] \div 256

\* (b & 0xff) as u8
output_byte(value) == value[Len(value)] % 256

\* ((w & 0xffff) as u16).to_be_bytes()
output_bytes_wide(value) == <<value[Len(value)] \div 256, value[Len(value)] % 256>>

\* a sink that forgets what it held
write_overwrite(out, bytes) == bytes

\* output.write(&[..]).unwrap() on a sink that takes every byte (a Vec<u8>)
write(out, bytes) == out \o bytes

\* Machine::execute
execute(m, i) ==
    LET rf == m.register_file
        mem == m.memory
    IN  IF ~registers_in_bounds(i) THEN [m EXCEPT !.fault = "index"]
        ELSE CASE i.family = "Output" ->
                    [m EXCEPT !.output = write(@, <<output_byte(read_register(rf, i.a))>>)]
               [] i.family = "OutputW" ->
                    [m EXCEPT !.output =
                        write(@, output_bytes_wide(read_register_wide(rf, i.a)))]
               [] i.family = "LoadMem" ->
                    [m EXCEPT !.register_file = write_register(rf, i.a, read_memory(mem, i.addr))]
               [] i.family = "LoadMemW" ->
                    [m EXCEPT !.register_file =
                        write_register_wide(rf, i.a, read_memory_wide(mem, i.addr))]
               [] i.family = "StoreMem" ->
                    [m EXCEPT !.memory = write_memory(mem, i.addr, read_register(rf, i.a))]
               [] i.family = "StoreMemW" ->
                    [m EXCEPT !.memory =
                        write_memory_wide(mem, i.addr, read_register_wide(rf, i.a))]
               [] i.family = "Jmp" ->
                    [m EXCEPT !.program_counter = jump_target(mem, i.addr)]
               [] i.family = "Jo" ->
                    IF is_odd(read_register(rf, i.a))
                    THEN [m EXCEPT !.program_counter = jump_target(mem, i.addr)]
                    ELSE m
               [] i.family = "Op" ->
                    [m EXCEPT !.register_file =
                        write_register(rf, i.a,
                            evaluate_operation(i.op, read_register(rf, i.a),
                                               read_register(rf, i.b)))]
               [] i.family = "OpW" ->
                    [m EXCEPT !.register_file =
                        write_register_wide(rf, i.a,
                            evaluate_operation_wide(i.op, read_register_wide(rf, i.a),
                                                    read_register_wide(rf, i.b)))]
               [] i.family = "OpImm" ->
                    [m EXCEPT !.register_file =
                        write_register(rf, i.a,
                            evaluate_operation(i.op, read_register(rf, i.b), i.imm))]
               [] i.family = "OpImmW" ->
                    [m EXCEPT !.register_file =
                        write_register_wide(rf, i.a,
                            evaluate_operation_wide(i.op, read_register_wide(rf, i.b), i.imm))]

\* one iteration of run's loop, and num_steps of them
step(m) == Eager(fetch(m), LAMBDA f : IF f.m.fault # "none" THEN f.m ELSE execute(f.m, f.i))

RECURSIVE run(_, _)
run(m, n) ==
    IF n = 0 \/ m.fault # "none" THEN m ELSE Eager(step(m), LAMBDA m2 : run(m2, n - 1))

\* ------------------------------------------------------------------- Init
\* bytes the enumerated memories are made of: output r1, loadmem r1, jo r1 and
\* neimmw r15 as opcodes; small, odd and all-ones as operands
SampleBytes == {1, 33, 113, 255}

RECURSIVE SeqsUpTo(_, _)
SeqsUpTo(S, n) ==
    IF n = 0 THEN {<<>>}
    ELSE LET shorter == SeqsUpTo(S, n - 1)
         IN  shorter \cup {Append(q, x) : q \in shorter, x \in S}

\* every memory of 1..MaxLen sample bytes
SmallMemories == SeqsUpTo(SampleBytes, MaxLen) \ {<<>>}

\* every opcode byte, alone and followed by two operand bytes
OperandTails == {<<>>, <<18, 5>>}
OpcodeMemories == {<<b>> \o p : b \in Byte, p \in OperandTails}

\* assembled programs
Programs ==
    { \* copyimm r0 r0 5; copyimm r1 r0 7; copyimm r2 r0 2; output r0; output r1; output r2
      <<192, 0, 0, 0, 0, 5, 192, 16, 0, 0, 0, 7, 192, 32, 0, 0, 0, 2, 0, 1, 2>>,
      \* jmp 4 (opcode 0x6f); (data) 0; loadmem r1 1; jo r1 12; output r1; output r1;
      \* jo r0 13; jmp (its address the two bytes at the start of memory)
      <<111, 0, 4, 0, 33, 0, 1, 113, 0, 12, 1, 1, 112, 0, 13, 96>>,
      \* loadmemw r1 4; outputw r1; output r3; (data) 171 205 239; loadmem r3 65533; outputw r1
      <<49, 0, 4, 17, 3, 171, 205, 239, 35, 255, 253, 17>>,
      \* loadmem r1 0; storemem r1 11; storememw r0 65534; loadmemw r2 7; (data)
      <<33, 0, 0, 65, 0, 11, 80, 255, 254, 50, 0, 7, 9>>,
      \* copyimmw r1 r0 0x0102030405060708; output r2; outputw r1; output r3; storememw r1 3
      <<224, 16, 1, 2, 3, 4, 5, 6, 7, 8, 2, 17, 3, 81, 0, 3>>,
      \* loadmemw r1 0; loadmem r1 0; loadmemw r1 3; addc r2 r1; submw r1 r0; output r0
      <<49, 0, 0, 33, 0, 0, 49, 0, 3, 143, 33, 178, 16, 0>>,
      \* loadmem r1 0; loadmem r3 1; submimm r3 r1 256; notimm r3 r1 0x01020304;
      \* submimmw r2 r1 1
      <<33, 0, 0, 35, 0, 1, 210, 49, 0, 0, 1, 0, 193, 49, 1, 2, 3, 4,
        242, 33, 0, 0, 0, 0, 0, 0, 0, 1>> }

\* Option::None
None == [none |-> TRUE]

\* no program is being mutated, and there is no audio queue
NoApplication ==
    /\ mutation = [p |-> <<>>, calls |-> 0, state |-> "none", initial |-> <<>>]
    /\ audio_queue = [current_index |-> None, sender |-> <<>>, hovered |-> None,
                      sent |-> None, mutations |-> 0]
    /\ aplay_writer = [current_data |-> None, current_data_index |-> 0, written |-> <<>>,
                       silence |-> 0, state |-> "none"]

\* a caller of the library constructs the machine on mem: no main, no assembler
Caller(mem) ==
    /\ args = <<>>
    /\ file = mem
    /\ input = mem
    /\ printed = <<>>
    /\ main = "run"
    /\ assembler = [data |-> <<>>, labels |-> {}, label_uses |-> <<>>, panic |-> FALSE]
    /\ lines_done = 0
    /\ uses_done = 0
    /\ population = <<>>
    /\ NoApplication

\* programs that store a register they have written into a memory their window
\* wraps in: loadmem r1 and storememw r0 overlapping in two bytes; numzeros r1 r1
\* and storemem r1 in three bytes; numzerosw r1 r1 and storememw r1 3 in five;
\* numzeros r1 r1 and storemem r1 3 in five
StoringPrograms == {<<33, 80>>, <<132, 17, 65>>, <<164, 17, 81, 0, 3>>, <<132, 17, 65, 0, 3>>}

InitialMemories ==
    SmallMemories \cup OpcodeMemories \cup Programs \cup StoringPrograms \cup {<<>>}

Init ==
    \E mem \in InitialMemories :
        /\ memory = new(mem).memory
        /\ program_counter = new(mem).program_counter
        /\ register_file = new(mem).register_file
        /\ output = new(mem).output
        /\ fault = new(mem).fault
        /\ remaining = 0
        /\ ibytes = <<>>
        /\ instr = NoInstr
        /\ ipos = 0
        /\ last = [i |-> NoInstr, bytes |-> <<>>, at |-> 0, pre |-> new(mem)]
        /\ mem0 = mem
        /\ total = 0
        /\ num_steps = 0
        /\ cycles = 0
        /\ Caller(mem)

\* ---------------------------------------------------------------- actions
\* run with the inclusive range 0..=num_steps
RunCallInclusive(n) ==
    /\ fault = "none"
    /\ remaining = 0
    /\ total + n <= MaxSteps
    /\ remaining' = n + 1
    /\ num_steps' = n
    /\ cycles' = 0
    /\ UNCHANGED <<memory, program_counter, register_file, output, fault,
                   ibytes, instr, ipos, last, mem0, total>>
    /\ UNCHANGED avars

\* run that starts every call at the first instruction
RunCallRestart(n) ==
    /\ fault = "none"
    /\ remaining = 0
    /\ total + n <= MaxSteps
    /\ remaining' = n
    /\ num_steps' = n
    /\ cycles' = 0
    /\ program_counter' = 0
    /\ UNCHANGED <<memory, register_file, output, fault,
                   ibytes, instr, ipos, last, mem0, total>>
    /\ UNCHANGED avars

\* the caller calls machine.run(n, output)
RunCall(n) ==
    /\ fault = "none"
    /\ remaining = 0
    /\ total + n <= MaxSteps
    /\ remaining' = n
    /\ num_steps' = n
    /\ cycles' = 0
    /\ UNCHANGED <<memory, program_counter, register_file, output, fault,
                   ibytes, instr, ipos, last, mem0, total>>
    /\ UNCHANGED avars

\* fetch reads one byte with next_instruction_byte; with the last byte of the
\* instruction it returns the Instruction
FetchByte ==
    /\ fault = "none"
    /\ remaining > 0
    /\ instr = NoInstr
    /\ \E r \in {next_instruction_byte(self)} :
        LET bytes == Append(ibytes, r.b)
        IN /\ program_counter' = r.m.program_counter
           /\ ipos' = IF ibytes = <<>> THEN program_counter ELSE ipos
           /\ IF r.m.fault # "none"
              THEN fault' = r.m.fault /\ ibytes' = ibytes /\ instr' = NoInstr
              ELSE IF ~complete(bytes)
              THEN fault' = "none" /\ ibytes' = bytes /\ instr' = NoInstr
              ELSE IF panics(decode(bytes))
              THEN fault' = "panic" /\ ibytes' = bytes /\ instr' = NoInstr
              ELSE fault' = "none" /\ ibytes' = bytes /\ instr' = decode(bytes)
    /\ UNCHANGED <<memory, register_file, output, remaining, last, mem0, total,
                   num_steps, cycles>>
    /\ UNCHANGED avars

\* run executes the fetched instruction and ends the iteration
ExecuteInstr ==
    /\ fault = "none"
    /\ remaining > 0
    /\ instr # NoInstr
    /\ \E m \in {execute(self, instr)} :
           /\ memory' = m.memory
           /\ program_counter' = m.program_counter
           /\ register_file' = m.register_file
           /\ output' = m.output
           /\ fault' = m.fault
           /\ IF m.fault # "none"
              THEN UNCHANGED <<remaining, total, cycles>>
              ELSE /\ remaining' = remaining - 1
                   /\ total' = total + 1
                   /\ cycles' = cycles + 1
    /\ last' = [i |-> instr, bytes |-> ibytes, at |-> ipos, pre |-> self]
    /\ ibytes' = <<>>
    /\ instr' = NoInstr
    /\ UNCHANGED <<ipos, mem0, num_steps>>
    /\ UNCHANGED avars

Next ==
    \/ \E n \in 0..MaxRun : RunCall(n)
    \/ FetchByte
    \/ ExecuteInstr

Spec == Init /\ [][Next]_vars

\* ------------------------------------------- the operations on chosen operands
\* operands of evaluate_operation and of evaluate_operation_wide, as the
\* big-endian bytes of an immediate: 0, 1, 2, 10, 32, 0x10001, 2^31, 2^32 - 1
\* and 0, 1, 3, 10, 64, 2^32, 2^63, 2^64 - 1
NarrowOperands ==
    { <<0, 0, 0, 0>>, <<0, 0, 0, 1>>, <<0, 0, 0, 2>>, <<0, 0, 0, 10>>, <<0, 0, 0, 32>>,
      <<0, 1, 0, 1>>, <<128, 0, 0, 0>>, <<255, 255, 255, 255>> }

WideOperands ==
    { <<0, 0, 0, 0, 0, 0, 0, 0>>, <<0, 0, 0, 0, 0, 0, 0, 1>>, <<0, 0, 0, 0, 0, 0, 0, 3>>,
      <<0, 0, 0, 0, 0, 0, 0, 10>>, <<0, 0, 0, 0, 0, 0, 0, 64>>,
      <<0, 0, 0, 1, 0, 0, 0, 0>>, <<128, 0, 0, 0, 0, 0, 0, 0>>,
      <<255, 255, 255, 255, 255, 255, 255, 255>> }

\* the indices of Shl, Shlm, Shr, Shrm, Addc, Addm, Subc, Subm, Mulc, Mulm,
\* Div, Mod, Powm, Powc in decode_operation
ArithmeticIndices == {9, 10, 11, 12, 15, 16, 17, 18, 20, 21, 22, 23, 24, 25}

\* the indices of Not and Neg in decode_operation
UnaryIndices == {1, 2}

\* copyimm r2 r2 x; <op>imm r1 r2 y, and the same with copyimmw, <op>immw:
\* after two cycles register 1 holds op(x, y). And <op>imm r1 r2 y; <op2> r1 r1
\* for Not and Neg, at both widths: after two cycles register 1 holds op2(op(y))
OperationPrograms ==
    { <<192, 34>> \o x \o <<192 + n, 18>> \o y :
          x \in NarrowOperands, y \in NarrowOperands, n \in ArithmeticIndices }
    \cup
    { <<224, 34>> \o x \o <<224 + n, 18>> \o y :
          x \in WideOperands, y \in WideOperands, n \in ArithmeticIndices }
    \cup
    { <<192 + n, 18>> \o y \o <<128 + o, 17>> :
          y \in NarrowOperands, n \in UnaryIndices, o \in UnaryIndices }
    \cup
    { <<224 + n, 18>> \o y \o <<160 + o, 17>> :
          y \in WideOperands, n \in UnaryIndices, o \in UnaryIndices }

OperationInit ==
    \E mem \in OperationPrograms :
        /\ memory = new(mem).memory
        /\ program_counter = new(mem).program_counter
        /\ register_file = new(mem).register_file
        /\ output = new(mem).output
        /\ fault = new(mem).fault
        /\ remaining = 0
        /\ ibytes = <<>>
        /\ instr = NoInstr
        /\ ipos = 0
        /\ last = [i |-> NoInstr, bytes |-> <<>>, at |-> 0, pre |-> new(mem)]
        /\ mem0 = mem
        /\ total = 0
        /\ num_steps = 0
        /\ cycles = 0
        /\ Caller(mem)

\* the caller runs the two instructions of the program, once
RunProgram == total = 0 /\ RunCall(MaxRun)

OperationNext == RunProgram \/ FetchByte \/ ExecuteInstr

OperationSpec == OperationInit /\ [][OperationNext]_vars

\* ---------------------------------------------------------- the assembler

\* A word of the source text is the sequence of its characters; a line is the
\* sequence of the words that split_whitespace yields from its code part.

\* the value that stands for a panic in a function that returns a number
Panicked == -1

ends_with(w, suffix) ==
    Len(w) >= Len(suffix) /\ SubSeq(w, Len(w) - Len(suffix) + 1, Len(w)) = suffix

DecimalDigits == <<"0", "1", "2", "3", "4", "5", "6", "7", "8", "9">>

\* the digits w[k..] appended to the number acc; Panicked (Err) on a
\* character that is no digit.  Literals stay below 2^31 in the model.
RECURSIVE parse_digits(_, _, _)
parse_digits(w, k, acc) ==
    IF k > Len(w) THEN acc
    ELSE IF \E d \in 1..10 : DecimalDigits[d] = w[k]
         THEN parse_digits(w, k + 1,
                           10 * acc + (CHOOSE d \in 0..9 : DecimalDigits[d + 1] = w[k]))
         ELSE Panicked

\* the digits of w as a number of at most most; Panicked (Err) when w is empty,
\* has a character that is no digit, or stands for more
digits(w, most) ==
    IF w = <<>> THEN Panicked
    ELSE Eager(parse_digits(w, 1, 0), LAMBDA i : IF i > most THEN Panicked ELSE i)

\* str::parse::<u8/u32/u64>() for a type whose maximum is most: digits, after
\* an optional "+"
parse(w, most) ==
    IF w # <<>> /\ w[1] = "+" THEN digits(SubSeq(w, 2, Len(w)), most) ELSE digits(w, most)

\* the closure encode_register, on the word w
encode_register(w) ==
    IF w = <<>> \/ w[1] # "r" THEN Panicked ELSE parse(SubSeq(w, 2, Len(w)), 255)

\* the 32 names that encode_operation accepts
OperationNames ==
    {<<"c", "o", "p", "y">>,
     <<"n", "o", "t">>,
     <<"n", "e", "g">>,
     <<"r", "e", "v", "e", "r", "s", "e">>,
     <<"n", "u", "m", "o", "n", "e", "s">>,
     <<"n", "u", "m", "z", "e", "r", "o", "s">>,
     <<"a", "n", "d">>,
     <<"o", "r">>,
     <<"x", "o", "r">>,
     <<"s", "h", "l">>,
     <<"s", "h", "l", "m">>,
     <<"s", "h", "r">>,
     <<"s", "h", "r", "m">>,
     <<"r", "o", "t", "l">>,
     <<"r", "o", "t", "r">>,
     <<"a", "d", "d", "c">>,
     <<"a", "d", "d", "m">>,
     <<"s", "u", "b", "c">>,
     <<"s", "u", "b", "m">>,
     <<"a", "b", "s", "d", "i", "f", "f">>,
     <<"m", "u", "l", "c">>,
     <<"m", "u", "l", "m">>,
     <<"d", "i", "v">>,
     <<"m", "o", "d">>,
     <<"p", "o", "w", "m">>,
     <<"p", "o", "w", "c">>,
     <<"g", "t">>,
     <<"g", "e">>,
     <<"l", "t">>,
     <<"l", "e">>,
     <<"e", "q">>,
     <<"n", "e">>}

\* the closure encode_operation
encode_operation(opstr) ==
    CASE opstr = <<"c", "o", "p", "y">> -> 0
      [] opstr = <<"n", "o", "t">> -> 1
      [] opstr = <<"n", "e", "g">> -> 2
      [] opstr = <<"r", "e", "v", "e", "r", "s", "e">> -> 3
      [] opstr = <<"n", "u", "m", "o", "n", "e", "s">> -> 4
      [] opstr = <<"n", "u", "m", "z", "e", "r", "o", "s">> -> 5
      [] opstr = <<"a", "n", "d">> -> 6
      [] opstr = <<"o", "r">> -> 7
      [] opstr = <<"x", "o", "r">> -> 8
      [] opstr = <<"s", "h", "l">> -> 9
      [] opstr = <<"s", "h", "l", "m">> -> 10
      [] opstr = <<"s", "h", "r">> -> 11
      [] opstr = <<"s", "h", "r", "m">> -> 12
      [] opstr = <<"r", "o", "t", "l">> -> 13
      [] opstr = <<"r", "o", "t", "r">> -> 14
      [] opstr = <<"a", "d", "d", "c">> -> 15
      [] opstr = <<"a", "d", "d", "m">> -> 16
      [] opstr = <<"s", "u", "b", "c">> -> 17
      [] opstr = <<"s", "u", "b", "m">> -> 18
      [] opstr = <<"a", "b", "s", "d", "i", "f", "f">> -> 19
      [] opstr = <<"m", "u", "l", "c">> -> 20
      [] opstr = <<"m", "u", "l", "m">> -> 21
      [] opstr = <<"d", "i", "v">> -> 22
      [] opstr = <<"m", "o", "d">> -> 23
      [] opstr = <<"p", "o", "w", "m">> -> 24
      [] opstr = <<"p", "o", "w", "c">> -> 25
      [] opstr = <<"g", "t">> -> 26
      [] opstr = <<"g", "e">> -> 27
      [] opstr = <<"l", "t">> -> 28
      [] opstr = <<"l", "e">> -> 29
      [] opstr = <<"e", "q">> -> 30
      [] opstr = <<"n", "e">> -> 31
      [] OTHER -> Panicked

\* i.to_be_bytes() for a number i below 2^31 and a type of n bytes
literal_bytes(i, n) ==
    Tuple([k \in 1..n |-> IF n - k >= 4 THEN 0 ELSE (i \div (256 ^ (n - k))) % 256])

\* x | y for bytes x and y
RECURSIVE bitor8(_, _, _)
bitor8(x, y, i) ==
    IF i = 8 THEN 0
    ELSE (IF ((x \div (2 ^ i)) % 2) + ((y \div (2 ^ i)) % 2) > 0 THEN 2 ^ i ELSE 0)
         + bitor8(x, y, i + 1)

\* str::parse::<i16>() as the u16 with the same bits; Panicked stands for Err
parse_i16(w) ==
    IF w # <<>> /\ w[1] = "-"
    THEN Eager(digits(SubSeq(w, 2, Len(w)), 32768),
               LAMBDA i : IF i = Panicked THEN Panicked ELSE (65536 - i) % 65536)
    ELSE parse(w, 32767)

\* the state of assemble: data, labels, label_uses, and whether it has panicked
assemble_start == [data |-> <<>>, labels |-> {}, label_uses |-> <<>>, panic |-> FALSE]

push(st, bytes) == IF st.panic THEN st ELSE [st EXCEPT !.data = @ \o bytes]

\* a failure that assemble passes over
panic_ignored(st) == st

\* a call that panics: a missing word, a failed parse or assertion
panic(st) == [st EXCEPT !.panic = TRUE]

\* data.push(opcode | encode_register(&mut words)), the register the word after
\* the mnemonic
push_opcode(st, opcode, line) ==
    IF Len(line) < 2 \/ encode_register(line[2]) = Panicked THEN panic(st)
    ELSE push(st, <<bitor8(opcode, encode_register(line[2]), 0)>>)

\* every address operand taken for a label
encode_address_as_label(st, line, k) ==
    IF st.panic \/ Len(line) < k THEN panic(st)
    ELSE push([st EXCEPT !.label_uses = Append(@, <<line[k], Len(st.data)>>)], <<0, 0>>)

\* the closure encode_address, on word k of the line
encode_address(st, line, k) ==
    IF st.panic \/ Len(line) < k THEN panic(st)
    ELSE IF parse_i16(line[k]) # Panicked
         THEN push(st, literal_bytes(parse_i16(line[k]), 2))
         ELSE push([st EXCEPT !.label_uses = Append(@, <<line[k], Len(st.data)>>)], <<0, 0>>)

\* the mnemonic without a final "w", and then without a final "imm"
without_w(word) == IF ends_with(word, <<"w">>) THEN SubSeq(word, 1, Len(word) - 1) ELSE word
without_imm(word) ==
    IF ends_with(word, <<"i", "m", "m">>) THEN SubSeq(word, 1, Len(word) - 3) ELSE word

\* the last arm of the match on first_word: an operation
operation_line(st, line) ==
    LET wide == ends_with(line[1], <<"w">>)
        immediate == ends_with(without_w(line[1]), <<"i", "m", "m">>)
        opstr == without_imm(without_w(line[1]))
        opcode == 128 + (IF wide THEN 32 ELSE 0) + (IF immediate THEN 64 ELSE 0)
                      + encode_operation(opstr)
        a == encode_register(line[2])
        b == encode_register(line[3])
        i == parse(line[4], 2147483647)
    IN  IF encode_operation(opstr) = Panicked THEN panic(st)
        ELSE IF Len(line) < 3 \/ a = Panicked \/ b = Panicked THEN panic(st)
        ELSE IF ~immediate THEN push(st, <<opcode, bitor8((a * 16) % 256, b, 0)>>)
        ELSE IF Len(line) < 4 \/ i = Panicked THEN panic(st)
        ELSE push(st, <<opcode, bitor8((a * 16) % 256, b, 0)>>
                      \o literal_bytes(i, IF wide THEN WideValueBytes ELSE ValueBytes))

\* a table that keeps the first value given to a name
labels_insert_if_absent(labels, name, value) ==
    IF \E l \in labels : l[1] = name THEN labels ELSE labels \cup {<<name, value>>}

\* labels.insert(label_name, data.len()): HashMap::insert replaces the value
\* the name had
labels_insert(labels, name, value) ==
    {l \in labels : l[1] # name} \cup {<<name, value>>}

\* one iteration of the loop over the lines of the text
assemble_line(st, line) ==
    IF st.panic \/ line = <<>> THEN st
    ELSE IF ends_with(line[1], <<":">>)
    THEN [st EXCEPT !.labels =
              labels_insert(@, SubSeq(line[1], 1, Len(line[1]) - 1), Len(st.data))]
    ELSE
        CASE line[1] = <<"o", "u", "t", "p", "u", "t">> ->
                 push_opcode(st, 0, line)
          [] line[1] = <<"o", "u", "t", "p", "u", "t", "w">> ->
                 push_opcode(st, 16, line)
          [] line[1] = <<"l", "o", "a", "d", "m", "e", "m">> ->
                 encode_address(push_opcode(st, 32, line), line, 3)
          [] line[1] = <<"l", "o", "a", "d", "m", "e", "m", "w">> ->
                 encode_address(push_opcode(st, 48, line), line, 3)
          [] line[1] = <<"s", "t", "o", "r", "e", "m", "e", "m">> ->
                 encode_address(push_opcode(st, 64, line), line, 3)
          [] line[1] = <<"s", "t", "o", "r", "e", "m", "e", "m", "w">> ->
                 encode_address(push_opcode(st, 80, line), line, 3)
          [] line[1] = <<"j", "m", "p">> ->
                 encode_address(push(st, <<96>>), line, 2)
          [] line[1] = <<"j", "o">> ->
                 encode_address(push_opcode(st, 112, line), line, 3)
          [] OTHER -> operation_line(st, line)

RECURSIVE assemble_lines(_, _, _)
assemble_lines(st, text, k) ==
    IF k > Len(text) THEN st
    ELSE Eager(assemble_line(st, text[k]), LAMBDA st2 : assemble_lines(st2, text, k + 1))

\* the offset written least significant byte first
resolve_use_little_endian(st, k) ==
    LET name == st.label_uses[k][1]
        location == st.label_uses[k][2]
    IN  IF ~\E l \in st.labels : l[1] = name THEN panic(st)
        ELSE Eager(literal_bytes((CHOOSE l \in st.labels : l[1] = name)[2] % 65536, 2),
                   LAMBDA m : [st EXCEPT !.data[location + 1] = m[2],
                                         !.data[location + 2] = m[1]])

\* one iteration of the loop over label_uses: the offset of the label of use k
\* into the two bytes reserved for it
resolve_use(st, k) ==
    LET name == st.label_uses[k][1]
        location == st.label_uses[k][2]
    IN  IF ~\E l \in st.labels : l[1] = name THEN panic(st)
        ELSE Eager(literal_bytes((CHOOSE l \in st.labels : l[1] = name)[2] % 65536, 2),
                   LAMBDA m : [st EXCEPT !.data[location + 1] = m[1],
                                         !.data[location + 2] = m[2]])

\* the loop over label_uses, from use k on
RECURSIVE resolve(_, _)
resolve(st, k) ==
    IF st.panic \/ k > Len(st.label_uses) THEN st
    ELSE Eager(resolve_use(st, k), LAMBDA st2 : resolve(st2, k + 1))

\* assemble: the bytes of the program, and whether the call panicked instead
assemble(text) == Eager(assemble_lines(assemble_start, text, 1), LAMBDA st : resolve(st, 1))

\* ------------------------------------------------- main of the interpreter

\* the suffixes of an operation mnemonic that the assembler accepts
Suffixes == {<<>>, <<"w">>, <<"i", "m", "m">>, <<"i", "m", "m", "w">>}

\* the one-line text `<name><suffix> r1 r2 [258]`
OperationText(name, suffix) ==
    << <<name \o suffix, <<"r", "1">>, <<"r", "2">>>>
       \o (IF ends_with(without_w(suffix), <<"i", "m", "m">>) THEN <<<<"2", "5", "8">>>>
           ELSE <<>>) >>

AssembledPrograms ==
    {assemble(OperationText(name, suffix)).data : name \in OperationNames, suffix \in Suffixes}

\* the one-line text `<name>wimm r1 r2 258`
WideImmediateText(name) ==
    << <<name \o <<"w", "i", "m", "m">>, <<"r", "1">>, <<"r", "2">>, <<"2", "5", "8">>>> >>

\* the mnemonics with a fixed encoding that take a register, and
\* whether an address follows it
FixedMnemonics ==
    {<<<<"o", "u", "t", "p", "u", "t">>, FALSE>>,
     <<<<"o", "u", "t", "p", "u", "t", "w">>, FALSE>>,
     <<<<"l", "o", "a", "d", "m", "e", "m">>, TRUE>>,
     <<<<"l", "o", "a", "d", "m", "e", "m", "w">>, TRUE>>,
     <<<<"s", "t", "o", "r", "e", "m", "e", "m">>, TRUE>>,
     <<<<"s", "t", "o", "r", "e", "m", "e", "m", "w">>, TRUE>>,
     <<<<"j", "o">>, TRUE>>}

\* register operands: the digits after the r
RegisterOperands ==
    {<<"0">>, <<"9">>, <<"1", "5">>, <<"1", "6">>, <<"3", "1">>, <<"2", "5", "5">>}

\* the one-line text `<mnemonic> r<n> [3]`
FixedText(mnemonic, n) ==
    << <<mnemonic[1], <<"r">> \o n>> \o (IF mnemonic[2] THEN <<<<"3">>>> ELSE <<>>) >>

\* a label used before and after its definition, a blank line, a negative literal
LabelText ==
    << <<<<"s", "t", "a", "r", "t", ":">>>>,
       <<<<"j", "m", "p">>, <<"e", "n", "d">>>>,
       <<<<"o", "u", "t", "p", "u", "t">>, <<"r", "1">>>>,
       <<<<"e", "n", "d", ":">>>>,
       <<<<"j", "m", "p">>, <<"e", "n", "d">>>>,
       <<>>,
       <<<<"j", "o">>, <<"r", "2">>, <<"s", "t", "a", "r", "t">>>>,
       <<<<"l", "o", "a", "d", "m", "e", "m">>, <<"r", "1">>, <<"-", "2">>>> >>

\* a label defined twice
DuplicateText ==
    << <<<<"a", ":">>>>,
       <<<<"j", "m", "p">>, <<"a">>>>,
       <<<<"o", "u", "t", "p", "u", "t">>, <<"r", "1">>>>,
       <<<<"a", ":">>>>,
       <<<<"j", "o">>, <<"r", "1">>, <<"a">>>> >>

\* a label defined twice, the first time with text after it on the line, and
\* used before, between and after its definitions:
\* jmp a / a: output r9 / jo r1 a / output r1 / a: / loadmem r2 a
RedefinedText ==
    << <<<<"j", "m", "p">>, <<"a">>>>,
       <<<<"a", ":">>, <<"o", "u", "t", "p", "u", "t">>, <<"r", "9">>>>,
       <<<<"j", "o">>, <<"r", "1">>, <<"a">>>>,
       <<<<"o", "u", "t", "p", "u", "t">>, <<"r", "1">>>>,
       <<<<"a", ":">>>>,
       <<<<"l", "o", "a", "d", "m", "e", "m">>, <<"r", "2">>, <<"a">>>> >>

\* addresses written as literals
LiteralText ==
    << <<<<"s", "t", "o", "r", "e", "m", "e", "m">>, <<"r", "1">>, <<"3", "0", "0">>>>,
       <<<<"j", "m", "p">>, <<"-", "1">>>>,
       <<<<"j", "o">>, <<"r", "0">>, <<"3", "2", "7", "6", "7">>>>,
       <<<<"l", "o", "a", "d", "m", "e", "m", "w">>, <<"r", "3">>, <<"-", "3", "2", "7", "6", "8">>>>,
       <<<<"o", "u", "t", "p", "u", "t">>, <<"r", "+", "2">>>>,
       <<<<"l", "o", "a", "d", "m", "e", "m">>, <<"r", "1">>, <<"+", "7">>>> >>

\* a label that is defined nowhere
UndefinedText ==
    << <<<<"o", "u", "t", "p", "u", "t">>, <<"r", "1">>>>,
       <<<<"j", "m", "p">>, <<"n", "o", "w", "h", "e", "r", "e">>>>,
       <<<<"o", "u", "t", "p", "u", "t">>, <<"r", "2">>>> >>

\* lines that the assembler cannot encode
BadLines ==
    {<<<<"f", "o", "o">>, <<"r", "1">>, <<"r", "2">>>>,
     <<<<"o", "u", "t", "p", "u", "t">>, <<"x", "1">>>>,
     <<<<"o", "u", "t", "p", "u", "t">>, <<"r", "2", "5", "6">>>>,
     <<<<"o", "u", "t", "p", "u", "t">>, <<"r">>>>,
     <<<<"o", "u", "t", "p", "u", "t">>>>,
     <<<<"c", "o", "p", "y", "i", "m", "m">>, <<"r", "1">>, <<"r", "2">>, <<"1", "x">>>>,
     <<<<"c", "o", "p", "y", "i", "m", "m">>, <<"r", "1">>, <<"r", "2">>>>,
     <<<<"c", "o", "p", "y", "i", "m", "m">>, <<"r", "1">>, <<"r", "2">>, <<"-", "1">>>>,
     <<<<"j", "m", "p">>>>,
     <<<<"j", "o">>, <<"r", "1">>>>,
     <<<<"n", "o", "p">>>>,
     <<<<"o", "u", "t", "p", "u", "t">>, <<"r", "-", "1">>>>,
     <<<<"o", "u", "t", "p", "u", "t">>, <<"r", "+">>>>,
     <<<<"j", "m", "p">>, <<"-", "+", "5">>>>,
     <<<<"c", "o", "p", "y", "i", "m", "m">>, <<"r", "1">>, <<"r", "2">>, <<"+">>>>}

\* a bad line between two good ones
BadText(bad) == << <<<<"o", "u", "t", "p", "u", "t">>, <<"r", "1">>>>, bad, <<<<"o", "u", "t", "p", "u", "t">>, <<"r", "2">>>> >>

Texts ==
    {OperationText(name, suffix) : name \in OperationNames, suffix \in Suffixes}
    \cup {WideImmediateText(name) : name \in OperationNames}
    \cup {FixedText(mnemonic, n) : mnemonic \in FixedMnemonics, n \in RegisterOperands}
    \cup {LabelText, DuplicateText, RedefinedText, LiteralText, UndefinedText, <<>>}
    \cup {BadText(bad) : bad \in BadLines}

\* what reading args[1] yields: the content of the file, or an error
Readable(content) == [exists |-> TRUE, content |-> content]
Unreadable == [exists |-> FALSE, content |-> <<>>]

\* a binary: output r1; loadmem r1 0; output r1
BinaryProgram == <<1, 33, 0, 0, 1>>

\* the command lines of the process and what the file named holds
Invocations ==
    {[args |-> <<"interpret", "program.asm", "--assemble">>, file |-> Readable(text)] :
        text \in Texts}
    \cup {[args |-> a, file |-> f] :
            a \in {<<"interpret">>,
                   <<"interpret", "program.bin">>,
                   <<"interpret", "-">>,
                   <<"interpret", "program.asm", "--asemble">>,
                   <<"interpret", "program.bin", "-">>,
                   <<"interpret", "--assemble", "program.asm">>,
                   <<"interpret", "program.asm", "--assemble", "--assemble">>},
            f \in {Readable(BinaryProgram), Readable(<<>>), Unreadable}}

\* before Machine::new: no machine
NoMachine ==
    [memory |-> <<>>, program_counter |-> 0, register_file |-> <<>>, output |-> <<>>,
     fault |-> "none"]

\* the process starts
AssemblerInit ==
    \E invocation \in Invocations :
        /\ args = invocation.args
        /\ file = invocation.file
        /\ input = <<>>
        /\ printed = <<>>
        /\ main = "start"
        /\ assembler = assemble_start
        /\ lines_done = 0
        /\ uses_done = 0
        /\ population = <<>>
        /\ NoApplication
        /\ memory = NoMachine.memory
        /\ program_counter = NoMachine.program_counter
        /\ register_file = NoMachine.register_file
        /\ output = NoMachine.output
        /\ fault = NoMachine.fault
        /\ remaining = 0
        /\ ibytes = <<>>
        /\ instr = NoInstr
        /\ ipos = 0
        /\ last = [i |-> NoInstr, bytes |-> <<>>, at |-> 0, pre |-> NoMachine]
        /\ mem0 = <<>>
        /\ total = 0
        /\ num_steps = 0
        /\ cycles = 0

\* the variables of the machine and of run
mvars == <<memory, program_counter, register_file, output, fault, remaining,
           ibytes, instr, ipos, last, mem0, total, num_steps, cycles>>

\* main checks the number of arguments
CheckArguments ==
    /\ main = "start"
    /\ IF Len(args) < 2 \/ Len(args) > 3
       THEN printed' = Append(printed, "Usage:") /\ main' = "returned"
       ELSE printed' = printed /\ main' = "read"
    /\ UNCHANGED <<mutation, audio_queue, aplay_writer, population, args, file, input, assembler, lines_done, uses_done, mvars>>

\* main reads stdin or the file named by args[1]
ReadInput ==
    /\ main = "read"
    /\ IF file.exists
       THEN input' = file.content /\ main' = (IF Len(args) = 3 THEN "third" ELSE "construct")
       ELSE input' = input /\ main' = "panicked"
    /\ UNCHANGED <<mutation, audio_queue, aplay_writer, population, args, file, printed, assembler, lines_done, uses_done, mvars>>

\* main looks at the third argument
CheckThird ==
    /\ main = "third"
    /\ IF At(args, 2) = "--assemble"
       THEN printed' = printed /\ main' = "assemble"
       ELSE printed' = Append(printed, "What??") /\ main' = "returned"
    /\ UNCHANGED <<mutation, audio_queue, aplay_writer, population, args, file, input, assembler, lines_done, uses_done, mvars>>

\* assemble takes the next line of the text
AssembleLine ==
    /\ main = "assemble"
    /\ lines_done < Len(input)
    /\ \E st \in {assemble_line(assembler, input[lines_done + 1])} :
           /\ assembler' = st
           /\ main' = IF st.panic THEN "panicked" ELSE "assemble"
    /\ lines_done' = lines_done + 1
    /\ UNCHANGED <<mutation, audio_queue, aplay_writer, population, args, file, input, printed, uses_done, mvars>>

\* pass 2 of assemble takes the next label use
ResolveUse ==
    /\ main = "assemble"
    /\ lines_done = Len(input)
    /\ uses_done < Len(assembler.label_uses)
    /\ \E st \in {resolve_use(assembler, uses_done + 1)} :
           /\ assembler' = st
           /\ main' = IF st.panic THEN "panicked" ELSE "assemble"
    /\ uses_done' = uses_done + 1
    /\ UNCHANGED <<mutation, audio_queue, aplay_writer, population, args, file, input, printed, lines_done, mvars>>

\* assemble returns data, which main assigns to memory
ReturnData ==
    /\ main = "assemble"
    /\ lines_done = Len(input)
    /\ uses_done = Len(assembler.label_uses)
    /\ input' = assembler.data
    /\ main' = "construct"
    /\ UNCHANGED <<mutation, audio_queue, aplay_writer, population, args, file, printed, assembler, lines_done, uses_done, mvars>>

\* Machine::new(memory)
Construct ==
    /\ main = "construct"
    /\ \E m \in {new(input)} :
           /\ memory' = m.memory
           /\ program_counter' = m.program_counter
           /\ register_file' = m.register_file
           /\ output' = m.output
           /\ fault' = m.fault
           /\ last' = [last EXCEPT !.pre = m]
           /\ main' = IF m.fault = "none" THEN "run" ELSE "panicked"
    /\ mem0' = input
    /\ UNCHANGED <<mutation, audio_queue, aplay_writer, population, args, file, input, printed, assembler, lines_done, uses_done,
                   remaining, ibytes, instr, ipos, total, num_steps, cycles>>

\* the loop of main calls machine.run
RunAssembled == main = "run" /\ RunCall(MaxRun)

AssemblerNext ==
    \/ CheckArguments
    \/ ReadInput
    \/ CheckThird
    \/ AssembleLine
    \/ ResolveUse
    \/ ReturnData
    \/ Construct
    \/ RunAssembled
    \/ FetchByte
    \/ ExecuteInstr

AssemblerSpec == AssemblerInit /\ [][AssemblerNext]_vars

\* ------------------------------------- Instance::new in the worker pool
\* OUTPUT_PREVIEW_LENGTH, steps_per_iter and max_iters of Instance::new, scaled
\* down with their order kept: one batch can overshoot the preview by
\* 2 * steps_per_iter bytes, and max_iters batches of OutputW more than fill it
OUTPUT_PREVIEW_LENGTH == 3
steps_per_iter == 2
max_iters == 3

\* the programs handed to the pool: none; jmp 0; output r0 and outputw r0 three
\* times; output r1 and jmp 0; loadmem r1 0, output r1, storemem r1 3 (which
\* overwrites its own bytes)
PoolPrograms ==
    {<<>>, <<96, 0, 0>>, <<0, 16, 16, 16>>, <<1, 96, 0, 0>>, <<33, 0, 0, 1, 65, 0, 3>>}

\* new_programs: what threadpool.map is given
Populations ==
    {<<p, q>> : p \in PoolPrograms, q \in PoolPrograms}
    \cup {<<<<0, 16, 16, 16>>, <<33, 0, 0, 1, 65, 0, 3>>, <<1, 96, 0, 0>>>>}

\* the locals of one call of Instance::new before its first statement; the
\* Vec output is the sink of its machine
instance_start(program) ==
    [program |-> program, machine |-> NoMachine, instr |-> NoInstr, iters |-> 0,
     steps |-> 0, boundary |-> 0, phase |-> "new"]

\* every run call starts at the first instruction again
next_iter_restarting(inst) ==
    [inst EXCEPT !.phase = IF inst.iters < max_iters THEN "run" ELSE "pad",
                 !.machine.program_counter = 0]

\* the for loop of Instance::new goes on to its next run call, or ends
next_iter(inst) == [inst EXCEPT !.phase = IF inst.iters < max_iters THEN "run" ELSE "pad"]

\* the output never counts as full
preview_never_full(out) == FALSE

\* if output.len() > OUTPUT_PREVIEW_LENGTH
preview_full(out) == Len(out) > OUTPUT_PREVIEW_LENGTH

\* every worker's machine uses the registers of the one that moved
worker_shared_registers(pop, j, inst) ==
    [i \in DOMAIN pop |->
        IF i = j THEN inst
        ELSE [pop[i] EXCEPT !.machine.register_file = inst.machine.register_file]]

\* the closure of threadpool.map number j moves on: its Instance::new owns its
\* program, machine and output
worker(pop, j, inst) == [pop EXCEPT ![j] = inst]

\* what the actions of the pool leave alone
pvars == <<mvars, args, file, input, printed, main, assembler, lines_done, uses_done,
           mutation, audio_queue, aplay_writer>>

PoolInit ==
    /\ \E programs \in Populations :
           population = [j \in DOMAIN programs |-> instance_start(programs[j])]
    /\ args = <<>>
    /\ file = <<>>
    /\ input = <<>>
    /\ printed = <<>>
    /\ main = "mutate"
    /\ NoApplication
    /\ assembler = assemble_start
    /\ lines_done = 0
    /\ uses_done = 0
    /\ memory = NoMachine.memory
    /\ program_counter = NoMachine.program_counter
    /\ register_file = NoMachine.register_file
    /\ output = NoMachine.output
    /\ fault = NoMachine.fault
    /\ remaining = 0
    /\ ibytes = <<>>
    /\ instr = NoInstr
    /\ ipos = 0
    /\ last = [i |-> NoInstr, bytes |-> <<>>, at |-> 0, pre |-> NoMachine]
    /\ mem0 = <<>>
    /\ total = 0
    /\ num_steps = 0
    /\ cycles = 0

\* let mut machine = Machine::new(program.clone()), then the head of the loop
InstanceNew(j) ==
    /\ j \in DOMAIN population
    /\ population[j].phase = "new"
    /\ \E m \in {new(population[j].program)} :
           population' = worker(population, j,
               IF m.fault # "none"
               THEN [population[j] EXCEPT !.machine = m, !.phase = "panicked"]
               ELSE next_iter([population[j] EXCEPT !.machine = m]))
    /\ UNCHANGED pvars

\* let i = self.fetch() in machine.run(steps_per_iter, &mut output)
InstanceFetch(j) ==
    /\ j \in DOMAIN population
    /\ population[j].phase = "run"
    /\ population[j].steps < steps_per_iter
    /\ population[j].instr = NoInstr
    /\ \E f \in {fetch(population[j].machine)} :
           population' = worker(population, j,
               [population[j] EXCEPT !.machine = f.m, !.instr = f.i,
                                     !.phase = IF f.m.fault # "none" THEN "panicked" ELSE "run"])
    /\ UNCHANGED pvars

\* self.execute(i, output) in machine.run(steps_per_iter, &mut output)
InstanceExecute(j) ==
    /\ j \in DOMAIN population
    /\ population[j].phase = "run"
    /\ population[j].instr # NoInstr
    /\ \E m \in {execute(population[j].machine, population[j].instr)} :
           population' = worker(population, j,
               [population[j] EXCEPT !.machine = m, !.instr = NoInstr, !.steps = @ + 1,
                                     !.phase = IF m.fault # "none" THEN "panicked" ELSE "run"])
    /\ UNCHANGED pvars

\* run returns; if output.len() > OUTPUT_PREVIEW_LENGTH { break; }
InstanceCheck(j) ==
    /\ j \in DOMAIN population
    /\ population[j].phase = "run"
    /\ population[j].steps = steps_per_iter
    /\ population[j].instr = NoInstr
    /\ \E inst \in {[population[j] EXCEPT !.iters = @ + 1, !.steps = 0,
                                          !.boundary = Len(population[j].machine.output)]} :
           population' = worker(population, j,
               IF preview_full(inst.machine.output) THEN [inst EXCEPT !.phase = "pad"]
               ELSE next_iter(inst))
    /\ UNCHANGED pvars

\* while output.len() < OUTPUT_PREVIEW_LENGTH { output.push(0); }, then the rest
\* of Instance::new, which leaves output as it is
InstancePad(j) ==
    /\ j \in DOMAIN population
    /\ population[j].phase = "pad"
    /\ population' = worker(population, j,
           IF Len(population[j].machine.output) < OUTPUT_PREVIEW_LENGTH
           THEN [population[j] EXCEPT !.machine.output = Append(@, 0)]
           ELSE [population[j] EXCEPT !.phase = "done"])
    /\ UNCHANGED pvars

\* the workers of the pool
Workers == 1..3

PoolNext ==
    \/ \E j \in Workers : InstanceNew(j)
    \/ \E j \in Workers : InstanceFetch(j)
    \/ \E j \in Workers : InstanceExecute(j)
    \/ \E j \in Workers : InstanceCheck(j)
    \/ \E j \in Workers : InstancePad(j)

PoolSpec == PoolInit /\ [][PoolNext]_vars

\* one worker's next statement
Worker(j) ==
    InstanceNew(j) \/ InstanceFetch(j) \/ InstanceExecute(j) \/ InstanceCheck(j)
    \/ InstancePad(j)

\* every worker thread keeps being scheduled until its closure returns
FairPoolSpec == PoolSpec /\ \A j \in Workers : WF_vars(Worker(j))

\* ------------------------------------------------------- mutate_program
\* self.mutation_amount, scaled down
mutation_amount == 2

\* the length a program must exceed for a byte of it to be erased
ErasableAbove == 16

\* the programs mutation starts from: bytes 1..n for n = 0, 1, 2, 16, 17, 18
InitialPrograms == {[k \in 1..n |-> k] : n \in {0, 1, 2, 16, 17, 18}}

\* the values drawn for mutation_type: insert, erase, randomize (2..=9), flip (10..)
MutationTypes == {0, 1, 5, 19}

\* the values drawn by thread_rng().gen_range(low..high): the ends and the
\* middle of the range; none when the range is empty
gen_range(low, high) == {low, (low + high - 1) \div 2, high - 1} \cap low..(high - 1)

\* the bytes drawn by thread_rng().gen(), and the bits by gen_range(0..=7)
RandomBytes == {0, 255}
RandomBits == {0, 7}

\* what a Vec operation leaves: the program, or the panic of an index out of
\* bounds
done(program) == [p |-> program, panic |-> FALSE]
out_of_bounds(program) == [p |-> program, panic |-> TRUE]

\* Vec::insert, Vec::remove and IndexMut on the program
insert(program, i, b) ==
    IF i > Len(program) THEN out_of_bounds(program)
    ELSE done(SubSeq(program, 1, i) \o <<b>> \o SubSeq(program, i + 1, Len(program)))

remove(program, i) ==
    IF i >= Len(program) THEN out_of_bounds(program)
    ELSE done(SubSeq(program, 1, i) \o SubSeq(program, i + 2, Len(program)))

assign(program, i, b) ==
    IF i >= Len(program) THEN out_of_bounds(program)
    ELSE done([program EXCEPT ![i + 1] = b])

\* program[i] ^= 1 << n
flip(program, i, n) ==
    IF i >= Len(program) THEN out_of_bounds(program)
    ELSE LET weight == 2 ^ n
             old == At(program, i)
         IN  done([program EXCEPT ![i + 1] =
                      IF (old \div weight) % 2 = 1 THEN old - weight ELSE old + weight])

\* every program has a byte to erase
erasable_always(program) == TRUE

\* the erase arm goes on: not program.len() <= 16
erasable(program) == Len(program) > ErasableAbove

\* the range the index of a mutation is drawn from: 0..=len to insert, 0..len
\* otherwise
index_range_end(mutation_type, program) ==
    IF mutation_type = 0 THEN Len(program) + 1 ELSE Len(program)

\* mutate_program with the values it draws
mutate_program(program, mutation_type, i, b, n) ==
    CASE mutation_type = 0 -> insert(program, i, b)
      [] mutation_type = 1 -> remove(program, i)
      [] mutation_type \in 2..9 -> assign(program, i, b)
      [] OTHER -> flip(program, i, n)

MutateInit ==
    /\ \E program \in InitialPrograms :
           mutation = [p |-> program, calls |-> 0, state |-> "mutating", initial |-> program]
    /\ audio_queue = [current_index |-> None, sender |-> <<>>, hovered |-> None,
                      sent |-> None, mutations |-> 0]
    /\ aplay_writer = [current_data |-> None, current_data_index |-> 0, written |-> <<>>,
                       silence |-> 0, state |-> "none"]
    /\ population = <<>>
    /\ args = <<>>
    /\ file = <<>>
    /\ input = <<>>
    /\ printed = <<>>
    /\ main = "mutate"
    /\ assembler = assemble_start
    /\ lines_done = 0
    /\ uses_done = 0
    /\ memory = NoMachine.memory
    /\ program_counter = NoMachine.program_counter
    /\ register_file = NoMachine.register_file
    /\ output = NoMachine.output
    /\ fault = NoMachine.fault
    /\ remaining = 0
    /\ ibytes = <<>>
    /\ instr = NoInstr
    /\ ipos = 0
    /\ last = [i |-> NoInstr, bytes |-> <<>>, at |-> 0, pre |-> NoMachine]
    /\ mem0 = <<>>
    /\ total = 0
    /\ num_steps = 0
    /\ cycles = 0

\* what the actions on the program being mutated leave alone
uvars == <<mvars, args, file, input, printed, main, assembler, lines_done, uses_done,
           population, audio_queue, aplay_writer>>

\* one mutate_program(&mut p) of the loop for _ in 0..self.mutation_amount
MutateProgram ==
    /\ mutation.state = "mutating"
    /\ mutation.calls < mutation_amount
    /\ \E mutation_type \in MutationTypes :
           IF mutation_type = 1 /\ ~erasable(mutation.p)
           THEN mutation' = [mutation EXCEPT !.calls = @ + 1]
           ELSE IF gen_range(0, index_range_end(mutation_type, mutation.p)) = {}
           THEN mutation' = [mutation EXCEPT !.state = "panicked"]
           ELSE \E i \in gen_range(0, index_range_end(mutation_type, mutation.p)) :
                \E b \in RandomBytes : \E n \in RandomBits :
                \E mutated \in {mutate_program(mutation.p, mutation_type, i, b, n)} :
                    mutation' = IF mutated.panic
                                THEN [mutation EXCEPT !.state = "panicked"]
                                ELSE [mutation EXCEPT !.p = mutated.p, !.calls = @ + 1]
    /\ UNCHANGED uvars

\* the closure returns p; Instance::new constructs the machine on it
MutatedNew ==
    /\ mutation.state = "mutating"
    /\ mutation.calls = mutation_amount
    /\ mutation' = [mutation EXCEPT
                       !.state = IF new(mutation.p).fault = "none" THEN "constructed"
                                 ELSE "panicked"]
    /\ UNCHANGED uvars

MutateNext == MutateProgram \/ MutatedNew

MutateSpec == MutateInit /\ [][MutateNext]_vars

\* ------------------------------------------------------ the audio queue
\* chunk_size of the writer thread, scaled down
chunk_size == 2

\* the buffers the channel holds at most, the empty chunks counted after a
\* buffer, and the calls of mutate
MaxPending == 2
MaxSilence == 1
MaxMutations == 1

\* Option::Some
Some(x) == [none |-> FALSE, some |-> x]

\* the instances of generation g, as Instance::new returns them: their outputs
\* are of the least and of the greatest length an output can have, and no byte
\* of them is in the output of another instance
Generation(g) ==
    << [program |-> <<g>>,
        output |-> [k \in 1..OUTPUT_PREVIEW_LENGTH |-> 40 * g + k],
        is_selected |-> FALSE],
       [program |-> <<g, g>>,
        output |-> [k \in 1..(OUTPUT_PREVIEW_LENGTH + 2 * steps_per_iter) |-> 40 * g + 20 + k],
        is_selected |-> FALSE] >>

\* AudioQueue::queue_audio
queue_audio(queue, index, data) ==
    IF queue.current_index # Some(index)
    THEN [queue EXCEPT !.current_index = Some(index),
                       !.sender = Append(@, data),
                       !.sent = Some(data)]
    ELSE queue

\* while let Ok(data) = receiver.try_recv(): one buffer taken from the channel
receive(writer, data) ==
    [writer EXCEPT !.current_data = Some(data), !.current_data_index = 0,
                   !.written = <<>>, !.silence = 0]

\* (current_data_index + chunk_size).min(d.len() - 1)
end_data_index(writer) ==
    IF writer.current_data_index + chunk_size < Len(writer.current_data.some) - 1
    THEN writer.current_data_index + chunk_size
    ELSE Len(writer.current_data.some) - 1

\* the rest of the loop body once try_recv has failed: an empty chunk, or
\* d[current_data_index..end_data_index] and the step to the next chunk
write_chunk(writer) ==
    IF writer.current_data = None THEN [writer EXCEPT !.silence = @ + 1]
    ELSE IF Len(writer.current_data.some) = 0 THEN [writer EXCEPT !.state = "panicked"]
    ELSE LET d == writer.current_data.some
             wrote == [writer EXCEPT
                          !.written = @ \o SubSeq(d, writer.current_data_index + 1,
                                                  end_data_index(writer)),
                          !.current_data_index = @ + chunk_size]
         IN  IF wrote.current_data_index >= Len(d)
             THEN [wrote EXCEPT !.current_data = None, !.current_data_index = 0]
             ELSE wrote

AudioInit ==
    /\ population = Generation(0)
    /\ audio_queue = [current_index |-> None, sender |-> <<>>, hovered |-> None,
                      sent |-> None, mutations |-> 0]
    /\ aplay_writer = [current_data |-> None, current_data_index |-> 0, written |-> <<>>,
                       silence |-> 0, state |-> "running"]
    /\ mutation = [p |-> <<>>, calls |-> 0, state |-> "none", initial |-> <<>>]
    /\ args = <<>>
    /\ file = <<>>
    /\ input = <<>>
    /\ printed = <<>>
    /\ main = "update"
    /\ assembler = assemble_start
    /\ lines_done = 0
    /\ uses_done = 0
    /\ memory = NoMachine.memory
    /\ program_counter = NoMachine.program_counter
    /\ register_file = NoMachine.register_file
    /\ output = NoMachine.output
    /\ fault = NoMachine.fault
    /\ remaining = 0
    /\ ibytes = <<>>
    /\ instr = NoInstr
    /\ ipos = 0
    /\ last = [i |-> NoInstr, bytes |-> <<>>, at |-> 0, pre |-> NoMachine]
    /\ mem0 = <<>>
    /\ total = 0
    /\ num_steps = 0
    /\ cycles = 0

\* what the actions of the application's window and of the writer leave alone
wvars == <<mvars, args, file, input, printed, main, assembler, lines_done, uses_done,
           mutation>>

\* show_instance(index) finds the pointer over the instance
Hover(index) ==
    /\ index \in 0..(Len(population) - 1)
    /\ \E queue \in {queue_audio(audio_queue, index, population[index + 1].output)} :
           /\ Len(queue.sender) <= MaxPending
           /\ audio_queue' = [queue EXCEPT !.hovered = Some(index)]
    /\ UNCHANGED <<population, aplay_writer, wvars>>

\* LemursApp::mutate: self.population = new_population
Mutate ==
    /\ audio_queue.mutations < MaxMutations
    /\ population' = Generation(audio_queue.mutations + 1)
    /\ audio_queue' = [audio_queue EXCEPT !.mutations = @ + 1, !.hovered = None]
    /\ UNCHANGED <<aplay_writer, wvars>>

\* the writer thread: try_recv yields a buffer
WriterReceive ==
    /\ aplay_writer.state = "running"
    /\ audio_queue.sender # <<>>
    /\ aplay_writer' = receive(aplay_writer, Head(audio_queue.sender))
    /\ audio_queue' = [audio_queue EXCEPT !.sender = Tail(@)]
    /\ UNCHANGED <<population, wvars>>

\* the writer thread: try_recv fails, and the thread writes one chunk
WriterWrite ==
    /\ aplay_writer.state = "running"
    /\ audio_queue.sender = <<>>
    /\ aplay_writer.current_data = None => aplay_writer.silence < MaxSilence
    /\ aplay_writer' = write_chunk(aplay_writer)
    /\ UNCHANGED <<population, audio_queue, wvars>>

AudioNext ==
    \/ \E index \in 0..1 : Hover(index)
    \/ Mutate
    \/ WriterReceive
    \/ WriterWrite

AudioSpec == AudioInit /\ [][AudioNext]_vars

\* ----------------------------------------------------------------- claims
\* a machine was constructed
Constructed == mem0 # <<>>

\* the machine is as ExecuteInstr left it: no byte of the next instruction read
JustExecuted == last.i # NoInstr /\ ibytes = <<>> /\ fault = "none"

\* one step of a fetch-decode-execute cycle
Cycle == FetchByte \/ ExecuteInstr

ExpectedFamily ==
    <<"Output", "OutputW", "LoadMem", "LoadMemW", "StoreMem", "StoreMemW", "Jmp", "Jo",
      "Op", "Op", "OpW", "OpW", "OpImm", "OpImm", "OpImmW", "OpImmW">>

\* enum Operation
Operations ==
    {"Copy", "Not", "Neg", "Reverse", "Numzeros", "Numones", "And", "Or", "Xor", "Shl",
     "Shlm", "Shr", "Shrm", "Rotl", "Rotr", "Addc", "Addm", "Subc", "Subm", "Absdiff",
     "Mulc", "Mulm", "Div", "Mod", "Powm", "Powc", "Gt", "Ge", "Lt", "Le", "Eq", "Ne"}

\* C2: decoding is total: whatever the opcode byte, fetch returns one
\* instruction, of the family its high nibble selects, and for the ALU
\* families with one of the 32 operations; no panic arm is reached.
C2_DecodingTotal ==
    /\ fault # "panic"
    /\ {decode_operation(n) : n \in 0..31} = Operations
    /\ Cardinality(Operations) = 32
    /\ (Constructed /\ complete(ibytes)) => instr # NoInstr
    /\ instr # NoInstr =>
          /\ instr.family = ExpectedFamily[(ibytes[1] \div 16) + 1]
          /\ ibytes[1] \div 16 >= 8 =>
                instr.op = decode_operation(((ibytes[1] \div 16) % 2) * 16 + (ibytes[1] % 16))
          /\ ibytes[1] \div 16 < 8 => instr.op = "none"

\* the last opcode byte, 0xff, decoded in a one-byte memory: neimmw
C2_Witness ==
    /\ mem0 = <<255>>
    /\ instr # NoInstr
    /\ instr.family = "OpImmW"
    /\ instr.op = "Ne"
    /\ total = 1

C4_Resumable ==
    (Constructed /\ remaining = 0) => self = run(new(mem0), total)

\* two calls or more, the last of them of two cycles, with something written
C4_Witness ==
    /\ remaining = 0
    /\ cycles = 2
    /\ total >= 4
    /\ program_counter # 0
    /\ output # <<>>

\* the opcode's nibbles, the address operand and the machine before execute
\* of the instruction executed last
LastHigh == last.bytes[1] \div 16
LastLow == last.bytes[1] % 16
LastAddress == last.bytes[2] * 256 + last.bytes[3]
Before == last.pre

\* C5: Jo(r, addr) fetched at p leaves the program counter at addr mod len
\* when the least significant bit of narrow register r is 1 and at
\* (p + 3) mod len, the next instruction, when it is 0; registers, memory and
\* output are as before.
C5_JoJumpsIffOdd ==
    (JustExecuted /\ LastHigh = 7) =>
        LET lsb == At(Before.register_file, LastLow * ValueBytes + 3) % 2
        IN  /\ lsb = 1 => program_counter = LastAddress % Len(memory)
            /\ lsb = 0 => program_counter = (last.at + 3) % Len(memory)
            /\ register_file = Before.register_file
            /\ memory = Before.memory
            /\ output = Before.output

\* a Jo that was taken, to somewhere other than the next instruction
C5_Witness ==
    /\ JustExecuted
    /\ LastHigh = 7
    /\ At(Before.register_file, LastLow * ValueBytes + 3) % 2 = 1
    /\ program_counter = LastAddress % Len(memory)
    /\ program_counter # (last.at + 3) % Len(memory)
    /\ LastAddress % 256 # LastAddress \div 256

\* C6: Jmp leaves the program counter at the big-endian address of its two
\* operand bytes mod len, whatever the low nibble of the opcode, and leaves
\* registers, memory and output as before.
C6_JmpUnconditional ==
    (JustExecuted /\ LastHigh = 6) =>
        /\ program_counter = LastAddress % Len(memory)
        /\ register_file = Before.register_file
        /\ memory = Before.memory
        /\ output = Before.output

\* opcode 0x6f, low nibble 15, has jumped to 4 and not on to the next cell, 3
C6_Witness ==
    /\ JustExecuted
    /\ last.bytes = <<111, 0, 4>>
    /\ last.at = 0
    /\ program_counter = 4
    /\ Len(memory) = 16

\* copyimm r0 r0 5; copyimm r1 r0 7; copyimm r2 r0 2; output r0; output r1; output r2
OutputProgram == <<192, 0, 0, 0, 0, 5, 192, 16, 0, 0, 0, 7, 192, 32, 0, 0, 0, 2, 0, 1, 2>>

Appended ==
    IF instr = NoInstr THEN 0
    ELSE CASE ibytes[1] \div 16 = 0 -> 1
           [] ibytes[1] \div 16 = 1 -> 2
           [] OTHER -> 0

Greatest(S) == CHOOSE x \in S : \A y \in S : y <= x

\* C9: memory addressing is circular: a load of n bytes from address A puts
\* memory cell (A + j) mod len into byte j of the register, j in 0..n-1, and
\* a store puts register byte j into cell (A + j) mod len (the later byte
\* where two fall on one cell) and leaves every other cell alone; n is 4, or
\* 8 for the wide forms; memory keeps its length and no access faults.
C9_CircularAddressing ==
    (JustExecuted /\ LastHigh \in 2..5) =>
        LET n == IF LastHigh \in {2, 4} THEN ValueBytes ELSE WideValueBytes
            first == LastLow * n
            len == Len(Before.memory)
            cell(j) == (LastAddress + j) % len
            from(c) == {j \in 0..(n - 1) : cell(j) = c}
        IN  /\ Len(memory) = len
            /\ fault = "none"
            /\ LastHigh \in {2, 3} =>
                  /\ memory = Before.memory
                  /\ \A j \in 0..(n - 1) :
                        At(register_file, first + j) = At(Before.memory, cell(j))
            /\ LastHigh \in {4, 5} =>
                  /\ register_file = Before.register_file
                  /\ \A c \in 0..(len - 1) :
                        At(memory, c) =
                            IF from(c) = {} THEN At(Before.memory, c)
                            ELSE At(Before.register_file, first + Greatest(from(c)))

\* a narrow store whose four cells run past the end of memory and on from cell 0
C9_Witness ==
    /\ JustExecuted
    /\ LastHigh = 4
    /\ Len(memory) > ValueBytes
    /\ LastAddress % Len(memory) = Len(memory) - 2
    /\ At(memory, 1) # At(Before.memory, 1)
    /\ At(memory, Len(memory) - 2) # At(Before.memory, Len(memory) - 2)
    /\ At(memory, 2) = At(Before.memory, 2)

\* wide register w, as its two narrow halves see it
Halves(rf, w) == read_register(rf, 2 * w) \o read_register(rf, 2 * w + 1)

\* C10: narrow and wide registers share one byte array: narrow 2w reads the
\* high 32 bits of wide w and narrow 2w+1 the low 32 bits, w in 0..7, so that
\* after a wide register is written (loadmemw, copyimmw) the two narrow
\* registers hold the halves of the value written; and a write of narrow n
\* (loadmem) changes the half of wide n div 2 that is narrow n and leaves the
\* other half as it was.
C10_NarrowWideAliasing ==
    /\ \A w \in 0..7 : Halves(register_file, w) = read_register_wide(register_file, w)
    /\ (JustExecuted /\ LastHigh = 3 /\ LastLow <= 7) =>
          LET len == Len(Before.memory)
              V == [j \in 1..WideValueBytes |->
                        At(Before.memory, (LastAddress + (j - 1)) % len)]
          IN  /\ read_register(register_file, 2 * LastLow) =
                     from_be_bytes(SubSeq(V, 1, 4))
              /\ read_register(register_file, 2 * LastLow + 1) =
                     from_be_bytes(SubSeq(V, 5, 8))
    /\ (JustExecuted /\ last.bytes[1] = 224 /\ last.bytes[2] \div 16 <= 7) =>
          LET w == last.bytes[2] \div 16
          IN  /\ read_register(register_file, 2 * w) =
                     from_be_bytes(SubSeq(last.bytes, 3, 6))
              /\ read_register(register_file, 2 * w + 1) =
                     from_be_bytes(SubSeq(last.bytes, 7, 10))
    /\ (JustExecuted /\ LastHigh = 2) =>
          LET n == LastLow
              other == IF n % 2 = 0 THEN n + 1 ELSE n - 1
              len == Len(Before.memory)
              V == [j \in 1..ValueBytes |->
                        At(Before.memory, (LastAddress + (j - 1)) % len)]
          IN  /\ read_register(register_file, n) = from_be_bytes(V)
              /\ read_register(register_file, other) =
                     read_register(Before.register_file, other)
              /\ read_register_wide(register_file, n \div 2) =
                     IF n % 2 = 0
                     THEN from_be_bytes(V) \o read_register(Before.register_file, other)
                     ELSE read_register(Before.register_file, other) \o from_be_bytes(V)
              /\ \A k \in 0..(RegisterFileSize - 1) :
                     k \notin (n * ValueBytes)..(n * ValueBytes + 3) =>
                        At(register_file, k) = At(Before.register_file, k)

\* loadmemw r1 has written a value with two different non-zero halves, seen
\* through narrow registers 2 and 3
C10_Witness ==
    /\ JustExecuted
    /\ LastHigh = 3
    /\ LastLow = 1
    /\ read_register(register_file, 2) # read_register(register_file, 3)
    /\ read_register(register_file, 2) # <<0, 0>>
    /\ read_register(register_file, 3) # <<0, 0>>
    /\ read_register(register_file, 0) = <<0, 0>>
    /\ Halves(register_file, 1) = read_register_wide(register_file, 1)

\* the register the instruction executed last wrote: its id, for the narrow
\* and for the wide instructions that write one
NarrowWritten ==
    CASE LastHigh = 2 -> {LastLow}
      [] LastHigh \in {8, 9, 12, 13} -> {last.bytes[2] \div 16}
      [] OTHER -> {}

WideWritten ==
    CASE LastHigh = 3 -> {LastLow}
      [] LastHigh \in {10, 11, 14, 15} -> {last.bytes[2] \div 16}
      [] OTHER -> {}

\* C11 as amended: for every register id n in 1..15 the narrow and the wide
\* view of id n are different bytes of the register file: a write of narrow n
\* leaves what wide n reads unchanged, and a write of wide n leaves what
\* narrow n reads unchanged. (Id 0 is the exception: narrow 0 is bytes 0..3 of
\* wide 0.)
C11_SameIdDisjointFromOne ==
    JustExecuted =>
        /\ \A n \in NarrowWritten \ {0} :
               read_register_wide(register_file, n) =
                   read_register_wide(Before.register_file, n)
        /\ \A n \in WideWritten \ {0} :
               read_register(register_file, n) = read_register(Before.register_file, n)

\* narrow r1 was written with a new value while wide r1 held a non-zero one
C11_Witness ==
    /\ JustExecuted
    /\ NarrowWritten = {1}
    /\ read_register(register_file, 1) # read_register(Before.register_file, 1)
    /\ read_register_wide(register_file, 1) # <<0, 0, 0, 0>>

\* C11 as claimed: for every register id n in 0..15 a write of narrow n
\* leaves what wide n reads unchanged, and a write of wide n leaves what
\* narrow n reads unchanged.
C11_SameIdDisjoint ==
    JustExecuted =>
        /\ \A n \in NarrowWritten :
               read_register_wide(register_file, n) =
                   read_register_wide(Before.register_file, n)
        /\ \A n \in WideWritten :
               read_register(register_file, n) = read_register(Before.register_file, n)

\* the register-file indices the fetched instruction will use: bytes
\* id*4 + 0..3 of each narrow operand, id*8 + 0..7 of each wide one
RegisterIndices ==
    LET narrow(id) == {id * ValueBytes + j : j \in 0..(ValueBytes - 1)}
        wide(id) == {id * WideValueBytes + j : j \in 0..(WideValueBytes - 1)}
    IN  CASE instr.family \in {"Output", "LoadMem", "StoreMem", "Jo"} -> narrow(instr.a)
          [] instr.family \in {"OutputW", "LoadMemW", "StoreMemW"} -> wide(instr.a)
          [] instr.family = "Op" -> narrow(instr.a) \cup narrow(instr.b)
          [] instr.family = "OpImm" -> narrow(instr.a) \cup narrow(instr.b)
          [] instr.family = "OpW" -> wide(instr.a) \cup wide(instr.b)
          [] instr.family = "OpImmW" -> wide(instr.a) \cup wide(instr.b)
          [] OTHER -> {}

\* C12: every register-file index of every instruction fetch decodes is an
\* index of the 256-byte register file, narrow and wide alike, and no
\* register access faults.
C12_RegisterIndicesInBounds ==
    /\ fault # "index"
    /\ Len(register_file) = RegisterFileSize
    /\ instr # NoInstr =>
          /\ instr.a \in 0..15
          /\ instr.b \in 0..15
          /\ RegisterIndices \subseteq 0..(RegisterFileSize - 1)

\* outputw r15 is fetched: the highest index any instruction uses, 127
C12_Witness ==
    /\ instr # NoInstr
    /\ instr.family = "OutputW"
    /\ instr.a = 15
    /\ 127 \in RegisterIndices

\* the operation and the register operands of the ALU instruction executed last
LastOperation == decode_operation((LastHigh % 2) * 16 + LastLow)
LastA == last.bytes[2] \div 16
LastB == last.bytes[2] % 16

\* the register file differs from the one before at most in the n bytes from first on
OnlyRegisterBytesChanged(first, n) ==
    \A k \in 0..(RegisterFileSize - 1) :
        k \notin first..(first + n - 1) =>
            At(register_file, k) = At(Before.register_file, k)

\* loadmemw r1 0; loadmem r1 0; loadmemw r1 3; addc r2 r1; submw r1 r0; output r0
RegisterProgram == <<49, 0, 0, 33, 0, 0, 49, 0, 3, 143, 33, 178, 16, 0>>

\* C13: Op(o, a, b) writes o(register a, register b) into register a, and OpW
\* does so on wide registers; the step changes the 4 (8) bytes of the
\* destination and moves the program counter on by 2, and changes no other
\* register byte, nor memory, nor output. So addc r2 r1 with r2 = 0x21000031
\* and r1 = 0x31000021 leaves 0x52000052 in r2, and submw r1 r0 with wide
\* r1 = 0x5200005200038f21 and wide r0 = 0x31000021 leaves
\* 0x52000051cf038f00 in wide r1.
C13_OpWritesFirstRegister ==
    /\ (JustExecuted /\ LastHigh \in {8, 9}) =>
          /\ read_register(register_file, LastA) =
                 evaluate_operation(LastOperation,
                                    read_register(Before.register_file, LastA),
                                    read_register(Before.register_file, LastB))
          /\ OnlyRegisterBytesChanged(LastA * ValueBytes, ValueBytes)
          /\ memory = Before.memory
          /\ output = Before.output
          /\ program_counter = (last.at + 2) % Len(memory)
    /\ (JustExecuted /\ LastHigh \in {10, 11}) =>
          /\ read_register_wide(register_file, LastA) =
                 evaluate_operation_wide(LastOperation,
                                         read_register_wide(Before.register_file, LastA),
                                         read_register_wide(Before.register_file, LastB))
          /\ OnlyRegisterBytesChanged(LastA * WideValueBytes, WideValueBytes)
          /\ memory = Before.memory
          /\ output = Before.output
          /\ program_counter = (last.at + 2) % Len(memory)
    /\ (mem0 = RegisterProgram /\ total = 4 /\ JustExecuted /\ LastHigh = 8) =>
          /\ read_register(Before.register_file, 2) = <<8448, 49>>
          /\ read_register(Before.register_file, 1) = <<12544, 33>>
          /\ read_register(register_file, 2) = <<20992, 82>>
          /\ read_register(register_file, 1) = <<12544, 33>>
    /\ (mem0 = RegisterProgram /\ total = 5 /\ JustExecuted /\ LastHigh = 11) =>
          /\ read_register_wide(Before.register_file, 1) = <<20992, 82, 3, 36641>>
          /\ read_register_wide(Before.register_file, 0) = <<0, 0, 12544, 33>>
          /\ read_register_wide(register_file, 1) = <<20992, 81, 52995, 36608>>

\* submw r1 r0 has run: a wide operation on two different non-zero registers
\* whose result is neither of them
C13_Witness ==
    /\ JustExecuted
    /\ LastHigh = 11
    /\ LastOperation = "Subm"
    /\ LastA = 1
    /\ LastB = 0
    /\ read_register_wide(register_file, 1) = <<20992, 81, 52995, 36608>>
    /\ read_register_wide(register_file, 0) = <<0, 0, 12544, 33>>

\* bytes first..first+n-1 of a register file
RegisterBytes(rf, first, n) == Tuple([j \in 1..n |-> At(rf, first + (j - 1))])

\* the immediate of the instruction executed last: the bytes after the
\* register byte, most significant first, as 16-bit limbs
LastImmediate ==
    Tuple([k \in 1..((Len(last.bytes) - 2) \div 2) |->
        last.bytes[2 * k + 1] * 256 + last.bytes[2 * k + 2]])

\* the operations that read only their second operand
SecondOperandOnly == {"Copy", "Not", "Neg", "Reverse", "Numzeros", "Numones"}

\* loadmem r1 0; loadmem r3 1; submimm r3 r1 256; notimm r3 r1 0x01020304;
\* submimmw r2 r1 1
ImmediateProgram ==
    <<33, 0, 0, 35, 0, 1, 210, 49, 0, 0, 1, 0, 193, 49, 1, 2, 3, 4,
      242, 33, 0, 0, 0, 0, 0, 0, 0, 1>>

\* C14: OpImm(o, a, b, imm) writes o(register b, imm) into register a, imm
\* being the 4 bytes after the register byte, big-endian (8 bytes for
\* OpImmW); what register a held is not an operand, and Copy and the unary
\* operations do not read register b either: copyimm leaves imm in a. So
\* submimm r3 r1 256 with r1 = 0x21000023 leaves 0x20ffff23 in r3, whatever
\* r3 held, notimm r3 r1 0x01020304 leaves 0xfefdfcfb, and submimmw r2 r1 1
\* with wide r1 = 0xfefdfcfb leaves 0xfefdfcfa in wide r2.
C14_ImmediateIsSecondOperand ==
    /\ (JustExecuted /\ LastHigh \in {12, 13}) =>
          /\ Len(last.bytes) = 2 + ValueBytes
          /\ read_register(register_file, LastA) =
                 evaluate_operation(LastOperation,
                                    read_register(Before.register_file, LastB),
                                    LastImmediate)
          /\ LastOperation \in SecondOperandOnly =>
                 read_register(register_file, LastA) =
                     evaluate_operation(LastOperation, <<0, 0>>, LastImmediate)
          /\ LastOperation = "Copy" =>
                 RegisterBytes(register_file, LastA * ValueBytes, ValueBytes) =
                     SubSeq(last.bytes, 3, 6)
          /\ OnlyRegisterBytesChanged(LastA * ValueBytes, ValueBytes)
    /\ (JustExecuted /\ LastHigh \in {14, 15}) =>
          /\ Len(last.bytes) = 2 + WideValueBytes
          /\ read_register_wide(register_file, LastA) =
                 evaluate_operation_wide(LastOperation,
                                         read_register_wide(Before.register_file, LastB),
                                         LastImmediate)
          /\ LastOperation \in SecondOperandOnly =>
                 read_register_wide(register_file, LastA) =
                     evaluate_operation_wide(LastOperation, <<0, 0, 0, 0>>, LastImmediate)
          /\ LastOperation = "Copy" =>
                 RegisterBytes(register_file, LastA * WideValueBytes, WideValueBytes) =
                     SubSeq(last.bytes, 3, 10)
          /\ OnlyRegisterBytesChanged(LastA * WideValueBytes, WideValueBytes)
    /\ (mem0 = ImmediateProgram /\ total = 3 /\ JustExecuted /\ LastHigh = 13) =>
          /\ RegisterBytes(Before.register_file, 12, 4) = <<0, 0, 35, 0>>
          /\ RegisterBytes(Before.register_file, 4, 4) = <<33, 0, 0, 35>>
          /\ RegisterBytes(register_file, 12, 4) = <<32, 255, 255, 35>>
    /\ (mem0 = ImmediateProgram /\ total = 4 /\ JustExecuted /\ LastHigh = 12) =>
          RegisterBytes(register_file, 12, 4) = <<254, 253, 252, 251>>
    /\ (mem0 = ImmediateProgram /\ total = 5 /\ JustExecuted /\ LastHigh = 15) =>
          RegisterBytes(register_file, 16, 8) = <<0, 0, 0, 0, 254, 253, 252, 250>>

\* submimm r3 r1 256 has run with r3, r1 and the immediate all different and
\* non-zero
C14_Witness ==
    /\ JustExecuted
    /\ last.bytes = <<210, 49, 0, 0, 1, 0>>
    /\ RegisterBytes(Before.register_file, 12, 4) = <<0, 0, 35, 0>>
    /\ RegisterBytes(Before.register_file, 4, 4) = <<33, 0, 0, 35>>
    /\ RegisterBytes(register_file, 12, 4) = <<32, 255, 255, 35>>

\* ------------------------------------------------ the numbers claims speak of
\* A natural number of any size is written as the sequence of its base-256
\* digits, least significant first; the empty sequence is 0.
Digit(x, k) == IF k >= 1 /\ k <= Len(x) THEN x[k] ELSE 0

\* x without its leading zero digits
RECURSIVE Stripped(_)
Stripped(x) ==
    IF x = <<>> \/ x[Len(x)] # 0 THEN x ELSE Stripped(SubSeq(x, 1, Len(x) - 1))

\* x and y are the same number
Same(x, y) == Stripped(x) = Stripped(y)

\* x <= y
AtMost(x, y) ==
    LET n == IF Len(x) > Len(y) THEN Len(x) ELSE Len(y)
    IN  \/ \A k \in 1..n : Digit(x, k) = Digit(y, k)
        \/ \E k \in 1..n : /\ Digit(x, k) < Digit(y, k)
                             /\ \A j \in (k + 1)..n : Digit(x, j) = Digit(y, j)

\* x + y + c from digit k on
RECURSIVE SumFrom(_, _, _, _)
SumFrom(x, y, k, c) ==
    IF k > Len(x) /\ k > Len(y) THEN (IF c = 0 THEN <<>> ELSE <<c>>)
    ELSE <<(Digit(x, k) + Digit(y, k) + c) % 256>> \o
         SumFrom(x, y, k + 1, (Digit(x, k) + Digit(y, k) + c) \div 256)

Sum(x, y) == SumFrom(x, y, 1, 0)

\* x * d + c for one digit d, from digit k of x on
RECURSIVE TimesDigitFrom(_, _, _, _)
TimesDigitFrom(x, d, k, c) ==
    IF k > Len(x) THEN (IF c = 0 THEN <<>> ELSE <<c>>)
    ELSE <<(x[k] * d + c) % 256>> \o TimesDigitFrom(x, d, k + 1, (x[k] * d + c) \div 256)

\* x * y, from digit k of y on
RECURSIVE ProductFrom(_, _, _)
ProductFrom(x, y, k) ==
    IF k > Len(y) THEN <<>>
    ELSE Sum(TimesDigitFrom(x, y[k], 1, 0), <<0>> \o ProductFrom(x, y, k + 1))

Product(x, y) == ProductFrom(x, y, 1)

\* x mod 256^n, and x clamped to 0..256^n - 1, as n digits
Modulo(x, n) == Tuple([k \in 1..n |-> Digit(x, k)])
Clamped(x, n) == IF Len(Stripped(x)) <= n THEN Modulo(x, n) ELSE Tuple([k \in 1..n |-> 255])

\* the number a sequence of big-endian bytes stands for
Number(bytes) == Tuple([k \in 1..Len(bytes) |-> bytes[Len(bytes) - k + 1]])

\* the immediate instruction executed last applied op; its operands are
\* register b as it was and the immediate, its result what register a holds
Applied(op) == JustExecuted /\ LastHigh >= 12 /\ LastOperation = op
Width == Len(last.bytes) - 2
FirstOperand == Number(RegisterBytes(Before.register_file, LastB * Width, Width))
SecondOperand == Number(SubSeq(last.bytes, 3, Len(last.bytes)))
Result == Number(RegisterBytes(register_file, LastA * Width, Width))

\* C15: at both widths Addc, Subc and Mulc give the sum, difference and
\* product clamped to 0..2^w - 1, and Addm, Subm and Mulm give them modulo
\* 2^w: Addc(0xffffffff, 1) = 0xffffffff, Subc(0, 1) = 0, Addm(0xffffffff, 1) = 0.
C15_ClampedAndModular ==
    /\ Applied("Addc") => Result = Clamped(Sum(FirstOperand, SecondOperand), Width)
    /\ Applied("Addm") => Result = Modulo(Sum(FirstOperand, SecondOperand), Width)
    /\ Applied("Mulc") => Result = Clamped(Product(FirstOperand, SecondOperand), Width)
    /\ Applied("Mulm") => Result = Modulo(Product(FirstOperand, SecondOperand), Width)
    /\ Applied("Subc") =>
          IF AtMost(SecondOperand, FirstOperand)
          THEN Same(Sum(Result, SecondOperand), FirstOperand)
          ELSE Same(Result, <<>>)
    /\ Applied("Subm") => Modulo(Sum(Result, SecondOperand), Width) = FirstOperand
    /\ (Applied("Addc") /\ FirstOperand = <<255, 255, 255, 255>> /\ SecondOperand = <<1, 0, 0, 0>>)
          => Result = <<255, 255, 255, 255>>
    /\ (Applied("Addm") /\ FirstOperand = <<255, 255, 255, 255>> /\ SecondOperand = <<1, 0, 0, 0>>)
          => Result = <<0, 0, 0, 0>>
    /\ (Applied("Subc") /\ FirstOperand = <<0, 0, 0, 0>> /\ SecondOperand = <<1, 0, 0, 0>>)
          => Result = <<0, 0, 0, 0>>

\* Addc(0xffffffff, 1) has been computed, and has saturated
C15_Witness ==
    /\ Applied("Addc")
    /\ FirstOperand = <<255, 255, 255, 255>>
    /\ SecondOperand = <<1, 0, 0, 0>>
    /\ Result = <<255, 255, 255, 255>>

\* 2^r for r in 0..7
PowerOfTwo(r) == <<1, 2, 4, 8, 16, 32, 64, 128>>[r + 1]

\* x * 2^n, and x div 2^n, for a number n that TLC can hold
LeftShifted(x, n) ==
    LET q == n \div 8
        p == PowerOfTwo(n % 8)
    IN  Tuple([k \in 1..(Len(x) + q + 1) |->
            ((Digit(x, k - q) * p) % 256) + ((Digit(x, k - q - 1) * p) \div 256)])

RightShifted(x, n) ==
    LET q == n \div 8
        p == PowerOfTwo(n % 8)
    IN  Tuple([k \in 1..Len(x) |->
            (Digit(x, k + q) \div p) + ((Digit(x, k + q + 1) % p) * (256 \div p))])

\* the shift amount is the operand width or more
AmountAtLeastWidth ==
    \/ SecondOperand[1] >= 8 * Width
    \/ \E k \in 2..Len(SecondOperand) : SecondOperand[k] # 0

\* the shift amount modulo the operand width, 32 or 64
AmountModuloWidth == SecondOperand[1] % (8 * Width)

\* C16 as claimed: at both widths, for every shift amount b, Shl(a, b) and
\* Shr(a, b) are 0 when b >= w and the plain shift otherwise, and Shlm and
\* Shrm shift by b mod w; so the 64-bit Shl and Shr are 0 for every b >= 64,
\* b >= 2^32 included.
C16_CheckedAndMaskedShifts ==
    /\ Applied("Shl") =>
          Result = IF AmountAtLeastWidth THEN Modulo(<<>>, Width)
                   ELSE Modulo(LeftShifted(FirstOperand, SecondOperand[1]), Width)
    /\ Applied("Shr") =>
          Result = IF AmountAtLeastWidth THEN Modulo(<<>>, Width)
                   ELSE RightShifted(FirstOperand, SecondOperand[1])
    /\ Applied("Shlm") =>
          Result = Modulo(LeftShifted(FirstOperand, AmountModuloWidth), Width)
    /\ Applied("Shrm") => Result = RightShifted(FirstOperand, AmountModuloWidth)

\* max(b, 1) for the second operand b
Divisor == IF Same(SecondOperand, <<>>) THEN <<1>> ELSE SecondOperand

\* a candidate for the quotient of the operands; C17 checks that it is one
Quotient ==
    Number(to_be_bytes(
        div(from_be_bytes(RegisterBytes(Before.register_file, LastB * Width, Width)),
            max(from_be_bytes(SubSeq(last.bytes, 3, Len(last.bytes))),
                small(Width \div 2, 1)))))

\* C17: Div and Mod never divide by zero: the divisor is max(b, 1), so
\* Div(a, 0) = a and Mod(a, 0) = 0 for every a, and for b >= 1 they are the
\* floor quotient and the remainder (a = q * b + r with 0 <= r < b).
C17_DivisorFlooredToOne ==
    /\ (Applied("Div") \/ Applied("Mod")) => fault = "none"
    /\ Applied("Div") =>
          /\ AtMost(Product(Result, Divisor), FirstOperand)
          /\ ~AtMost(Sum(Product(Result, Divisor), Divisor), FirstOperand)
          /\ Same(SecondOperand, <<>>) => Same(Result, FirstOperand)
    /\ Applied("Mod") =>
          /\ ~AtMost(Divisor, Result)
          /\ Same(Sum(Product(Quotient, Divisor), Result), FirstOperand)
          /\ Same(SecondOperand, <<>>) => Same(Result, <<>>)
    /\ (Applied("Div") /\ FirstOperand = <<10, 0, 0, 0>> /\ SecondOperand = <<0, 0, 0, 0>>)
          => Result = <<10, 0, 0, 0>>
    /\ (Applied("Div") /\ FirstOperand = <<255, 255, 255, 255>>
            /\ SecondOperand = <<10, 0, 0, 0>>) => Result = <<153, 153, 153, 25>>
    /\ (Applied("Mod") /\ FirstOperand = <<255, 255, 255, 255>>
            /\ SecondOperand = <<10, 0, 0, 0>>) => Result = <<5, 0, 0, 0>>

\* Div(10, 0) = 10 has been computed at width 32
C17_Witness ==
    /\ Applied("Div") /\ Width = 4
    /\ FirstOperand = <<10, 0, 0, 0>> /\ SecondOperand = <<0, 0, 0, 0>>
    /\ Result = <<10, 0, 0, 0>>

\* bit i of the number e, bit 0 the least significant
ExponentBit(e, i) == (Digit(e, (i \div 8) + 1) \div PowerOfTwo(i % 8)) % 2

\* one step of square-and-multiply modulo 256^n, for bit i of e
PowerStep(x, e, i, n, acc) ==
    Eager(Modulo(Product(acc, acc), n),
          LAMBDA square : IF ExponentBit(e, i) = 1 THEN Modulo(Product(square, x), n)
                          ELSE square)

\* the steps for bits hi down to lo of e, the upper half of them first
RECURSIVE PowerBits(_, _, _, _, _, _)
PowerBits(x, e, hi, lo, n, acc) ==
    IF hi = lo THEN PowerStep(x, e, hi, n, acc)
    ELSE Eager(PowerBits(x, e, hi, (hi + lo + 1) \div 2, n, acc),
               LAMBDA acc2 : PowerBits(x, e, ((hi + lo + 1) \div 2) - 1, lo, n, acc2))

\* x^e mod 256^n, as n digits
Power(x, e, n) ==
    Eager(<<x, e>>, LAMBDA xe : PowerBits(xe[1], xe[2], 8 * Len(xe[2]) - 1, 0, n,
                                          Modulo(<<1>>, n)))

\* C18 as claimed: Powm is wrapping exponentiation: at both widths, for all
\* operands a and b, Powm(a, b) = a^b mod 2^w; at width 32, Powm(2, 32) = 0.
C18_PowmWraps ==
    /\ Applied("Powm") => Result = Power(FirstOperand, SecondOperand, Width)
    /\ (Applied("Powm") /\ FirstOperand = <<2, 0, 0, 0>> /\ SecondOperand = <<32, 0, 0, 0>>)
          => Result = <<0, 0, 0, 0>>

\* C19 as claimed: Powc is wrapping exponentiation, never clamped to the type
\* maximum: at widths 32 and 64, for all operands a and b,
\* Powc(a, b) = a^b mod 2^w.
C19_PowcWraps == Applied("Powc") => Result = Power(FirstOperand, SecondOperand, Width)

\* the letters that begin an operation name, and their capitals
Initials == <<"a", "c", "d", "e", "g", "l", "m", "n", "o", "p", "r", "s", "x">>
Capitals == <<"A", "C", "D", "E", "G", "L", "M", "N", "O", "P", "R", "S", "X">>

RECURSIVE Joined(_, _)
Joined(word, k) == IF k > Len(word) THEN "" ELSE word[k] \o Joined(word, k + 1)

\* the name of the enum variant written like the assembler's name
Variant(name) ==
    Capitals[CHOOSE k \in 1..Len(Initials) : Initials[k] = name[1]] \o Joined(name, 2)

\* C20 as claimed: the assembler and the decoder use the same encoding of
\* operations: for each of the 32 names the assembler accepts, the 5-bit code
\* it emits is decoded by decode_operation to the operation of the same name,
\* and so the machine executes that operation when it runs the assembled line.
C20_SameOperationEncoding ==
    \A name \in OperationNames, suffix \in Suffixes :
        (JustExecuted /\ mem0 = assemble(OperationText(name, suffix)).data)
            => /\ last.bytes[1] % 32 = encode_operation(name)
               /\ last.i.op = decode_operation(encode_operation(name))
               /\ last.i.op = Variant(name)

\* ------------------------------------------------ what the assembler is to emit

\* the number of bytes a line of the text stands for
LineSize(words) ==
    IF words = <<>> \/ words[1][Len(words[1])] = ":" THEN 0
    ELSE IF words[1] \in {<<"o", "u", "t", "p", "u", "t">>, <<"o", "u", "t", "p", "u", "t", "w">>} THEN 1
    ELSE IF words[1] \in {<<"l", "o", "a", "d", "m", "e", "m">>, <<"l", "o", "a", "d", "m", "e", "m", "w">>, <<"s", "t", "o", "r", "e", "m", "e", "m">>, <<"s", "t", "o", "r", "e", "m", "e", "m", "w">>, <<"j", "m", "p">>, <<"j", "o">>}
    THEN 3
    ELSE LET mnemonic == words[1]
             n == Len(mnemonic)
         IN  IF n >= 4 /\ SubSeq(mnemonic, n - 3, n) = <<"i", "m", "m", "w">> THEN 10
             ELSE IF n >= 3 /\ SubSeq(mnemonic, n - 2, n) = <<"i", "m", "m">> THEN 6
             ELSE 2

\* the offset of line k of the text: the bytes of the lines before it
RECURSIVE Offset(_, _)
Offset(text, k) == IF k = 1 THEN 0 ELSE Offset(text, k - 1) + LineSize(text[k - 1])

\* the offsets at which the text defines the label name
DefinedAt(text, name) ==
    {Offset(text, k) : k \in {j \in 1..Len(text) : text[j] # <<>> /\ text[j][1] = name \o <<":">>}}

\* assemble has returned to main
Assembled == Len(args) = 3 /\ main \in {"construct", "run"}

\* the two bytes of the returned data at a label use
UseBytes(k) == SubSeq(input, assembler.label_uses[k][2] + 1, assembler.label_uses[k][2] + 2)

\* C21: in the bytes assemble returns, every label use, before or after the
\* definition of its label, holds the big-endian 16-bit offset at which the
\* label is defined, so a use before and a use after the definition of one
\* label are encoded by the same bytes.
C21_ForwardAndBackwardAlike ==
    /\ Assembled =>
          \A k \in 1..Len(assembler.label_uses) :
              /\ \E d \in DefinedAt(file.content, assembler.label_uses[k][1]) :
                     UseBytes(k) = <<d \div 256, d % 256>>
              /\ \A j \in 1..Len(assembler.label_uses) :
                     assembler.label_uses[j][1] = assembler.label_uses[k][1]
                         => UseBytes(j) = UseBytes(k)
    /\ (Assembled /\ file.content = LabelText) =>
          /\ SubSeq(input, 1, 3) = <<96, 0, 4>>
          /\ SubSeq(input, 5, 7) = <<96, 0, 4>>
          /\ SubSeq(input, 8, 10) = <<114, 0, 0>>

\* `jmp end` before and after `end:` have both been encoded, as 96 0 4
C21_Witness ==
    /\ Assembled /\ file.content = LabelText
    /\ assembler.label_uses[1] = <<<<"e", "n", "d">>, 1>>
    /\ assembler.label_uses[2] = <<<<"e", "n", "d">>, 5>>
    /\ DefinedAt(LabelText, <<"e", "n", "d">>) = {4}
    /\ UseBytes(1) = <<0, 4>> /\ UseBytes(2) = <<0, 4>>

\* texts with an unknown mnemonic or operation name, an unparseable or missing
\* operand, or a use of a label that is defined nowhere
FaultyTexts ==
    {BadText(bad) : bad \in BadLines} \cup {UndefinedText}
    \cup {WideImmediateText(name) : name \in OperationNames}

\* assemble has consumed every line and every label use: it is about to return
AssembleAtEnd ==
    main = "assemble" /\ lines_done = Len(input) /\ uses_done = Len(assembler.label_uses)

\* C22: assembly is all-or-nothing.  On an unknown mnemonic or operation name,
\* an unparseable register or immediate literal, or a use of an undefined
\* label, assemble panics: it never returns, main receives no byte of data and
\* no machine is constructed.  Whenever it returns, pass 2 has consumed every
\* recorded label use and each holds the offset of its label.
C22_AllOrNothing ==
    /\ assembler.panic =>
          /\ main = "panicked"
          /\ input = file.content
          /\ mem0 = <<>> /\ memory = <<>> /\ total = 0 /\ output = <<>>
    /\ (Len(args) = 3 /\ file.content \in FaultyTexts) => ~AssembleAtEnd /\ ~Assembled
    /\ (AssembleAtEnd \/ Assembled) =>
          /\ ~assembler.panic
          /\ uses_done = Len(assembler.label_uses)
          /\ \A k \in 1..uses_done :
                \E l \in assembler.labels :
                    /\ l[1] = assembler.label_uses[k][1]
                    /\ SubSeq(assembler.data, assembler.label_uses[k][2] + 1,
                              assembler.label_uses[k][2] + 2) = <<l[2] \div 256, l[2] % 256>>
    /\ Assembled => input = assembler.data

\* pass 2 has panicked on the undefined label after pass 1 had pushed the five
\* bytes of the text: none of them reached main
C22_Witness ==
    /\ file.content = UndefinedText
    /\ assembler.panic /\ main = "panicked"
    /\ assembler.data = <<1, 96, 0, 0, 2>>
    /\ lines_done = 3 /\ uses_done = 1
    /\ input = UndefinedText /\ mem0 = <<>>

\* the instruction family a fixed mnemonic names, and its high nibble
FamilyNamed ==
    (<<"o", "u", "t", "p", "u", "t">> :> <<"Output", 0>>) @@
    (<<"o", "u", "t", "p", "u", "t", "w">> :> <<"OutputW", 1>>) @@
    (<<"l", "o", "a", "d", "m", "e", "m">> :> <<"LoadMem", 2>>) @@
    (<<"l", "o", "a", "d", "m", "e", "m", "w">> :> <<"LoadMemW", 3>>) @@
    (<<"s", "t", "o", "r", "e", "m", "e", "m">> :> <<"StoreMem", 4>>) @@
    (<<"s", "t", "o", "r", "e", "m", "e", "m", "w">> :> <<"StoreMemW", 5>>) @@
    (<<"j", "o">> :> <<"Jo", 7>>)

\* the number a register operand names
RegisterNamed ==
    (<<"0">> :> 0) @@
    (<<"9">> :> 9) @@
    (<<"1", "5">> :> 15) @@
    (<<"1", "6">> :> 16) @@
    (<<"3", "1">> :> 31) @@
    (<<"2", "5", "5">> :> 255)

\* C23 as claimed: for every fixed mnemonic that takes a register and every
\* register operand rN the assembler accepts, the opcode byte it emits has the
\* mnemonic's family in its high nibble and N in its low nibble, and fetch
\* decodes the assembled bytes to that family with register id N.
C23_FixedMnemonicRoundTrip ==
    \A mnemonic \in FixedMnemonics, n \in RegisterOperands :
        (Assembled /\ file.content = FixedText(mnemonic, n)) =>
            /\ input[1] \div 16 = FamilyNamed[mnemonic[1]][2]
            /\ input[1] % 16 = RegisterNamed[n]
            /\ (JustExecuted /\ total = 1) =>
                  /\ last.i.family = FamilyNamed[mnemonic[1]][1]
                  /\ last.i.a = RegisterNamed[n]

\* the one-line text of an operation in the form the grammar <op>['w']['imm']
\* gives it, the suffixes present as told
GrammarText(name, w, imm) ==
    IF w /\ imm THEN WideImmediateText(name)
    ELSE OperationText(name, (IF w THEN <<"w">> ELSE <<>>)
                             \o (IF imm THEN <<"i", "m", "m">> ELSE <<>>))

\* the bytes after the opcode byte: r1 r2, and the immediate 258 if there is one
OperandBytes(w, imm) ==
    <<18>> \o (IF ~imm THEN <<>>
               ELSE IF w THEN <<0, 0, 0, 0, 0, 0, 1, 2>> ELSE <<0, 0, 1, 2>>)

FamilyOf(w, imm) ==
    IF imm THEN (IF w THEN "OpImmW" ELSE "OpImm") ELSE (IF w THEN "OpW" ELSE "Op")

\* C24 as claimed: for every operation name op, each of op, opw, opimm and
\* opwimm is accepted; the opcode has bit 0x80 set, bit 0x20 set iff the w
\* suffix is present and bit 0x40 iff the imm suffix is; then come the register
\* byte (a << 4 | b) and, iff immediate, the 4 or 8 big-endian bytes of the
\* immediate; fetch decodes the bytes to Op, OpW, OpImm or OpImmW.
C24_OperationMnemonicForms ==
    \A name \in OperationNames, w \in BOOLEAN, imm \in BOOLEAN :
        (Len(args) = 3 /\ file.content = GrammarText(name, w, imm)) =>
            /\ ~assembler.panic
            /\ Assembled =>
                  /\ input[1] >= 128
                  /\ ((input[1] \div 32) % 2 = 1) = w
                  /\ ((input[1] \div 64) % 2 = 1) = imm
                  /\ SubSeq(input, 2, Len(input)) = OperandBytes(w, imm)
                  /\ (JustExecuted /\ total = 1) =>
                        /\ last.i.family = FamilyOf(w, imm)
                        /\ last.i.a = 1 /\ last.i.b = 2

\* address operands written as signed 16-bit decimal literals, and the 16 bits
\* of each as a number
LiteralNamed ==
    (<<"3">> :> 3) @@
    (<<"3", "0", "0">> :> 300) @@
    (<<"-", "1">> :> 65535) @@
    (<<"3", "2", "7", "6", "7">> :> 32767) @@
    (<<"-", "3", "2", "7", "6", "8">> :> 32768) @@
    (<<"+", "7">> :> 7) @@
    (<<"-", "2">> :> 65534)

\* the mnemonics that end with an address operand
AddressMnemonics ==
    {<<"l", "o", "a", "d", "m", "e", "m">>, <<"l", "o", "a", "d", "m", "e", "m", "w">>, <<"s", "t", "o", "r", "e", "m", "e", "m">>, <<"s", "t", "o", "r", "e", "m", "e", "m", "w">>, <<"j", "m", "p">>, <<"j", "o">>}

\* the line assemble takes next, and the label use pass 2 takes next
NextLine == input[lines_done + 1]
NextUse == assembler.label_uses[uses_done + 1]

\* C25: pass 2 writes, for each recorded label use, the big-endian 16-bit
\* offset of the label into the two bytes reserved for it, and changes no
\* other byte, nor the length of the data, nor the tables; an address operand
\* that is a signed 16-bit decimal literal is pushed at once as its
\* two's-complement big-endian bytes and is not recorded as a label use.
C25_BackpatchFrame ==
    /\ [][(main = "assemble" /\ uses_done' = uses_done + 1 /\ ~assembler'.panic) =>
              /\ Len(assembler'.data) = Len(assembler.data)
              /\ \A i \in 1..Len(assembler.data) :
                     i \notin {NextUse[2] + 1, NextUse[2] + 2}
                         => assembler'.data[i] = assembler.data[i]
              /\ SubSeq(assembler.data, NextUse[2] + 1, NextUse[2] + 2) = <<0, 0>>
              /\ \E d \in DefinedAt(file.content, NextUse[1]) :
                     SubSeq(assembler'.data, NextUse[2] + 1, NextUse[2] + 2)
                         = <<d \div 256, d % 256>>
              /\ assembler'.labels = assembler.labels
              /\ assembler'.label_uses = assembler.label_uses
              /\ input' = input]_vars
    /\ [][(main = "assemble" /\ lines_done' = lines_done + 1
               /\ NextLine # <<>> /\ NextLine[1] \in AddressMnemonics
               /\ Len(NextLine) >= 2 /\ NextLine[Len(NextLine)] \in DOMAIN LiteralNamed) =>
              /\ ~assembler'.panic
              /\ assembler'.label_uses = assembler.label_uses
              /\ Len(assembler'.data) = Len(assembler.data) + 3
              /\ SubSeq(assembler'.data, 1, Len(assembler.data)) = assembler.data
              /\ SubSeq(assembler'.data, Len(assembler.data) + 2, Len(assembler.data) + 3)
                    = <<LiteralNamed[NextLine[Len(NextLine)]] \div 256,
                        LiteralNamed[NextLine[Len(NextLine)]] % 256>>]_vars
    /\ [](Assembled => \A k \in 1..Len(assembler.label_uses) :
                           assembler.label_uses[k][1] \notin DOMAIN LiteralNamed)

\* pass 2 has written the three label uses of LabelText; the literal -2 stands
\* as ff fe and is no label use
C25_Witness ==
    /\ file.content = LabelText /\ main = "assemble" /\ uses_done = 3
    /\ assembler.data = <<96, 0, 4, 1, 96, 0, 4, 114, 0, 0, 33, 255, 254>>
    /\ Len(assembler.label_uses) = 3

\* C26: Machine::new fails fast on an empty buffer, and no machine is created:
\* nothing is ever fetched, executed or written.  For every non-empty buffer
\* it yields a machine whose memory is the given bytes, whose program counter
\* is 0 and whose 256 register-file bytes are all 0.
C26_ConstructionFailsFast ==
    /\ [][main = "construct" =>
              IF input = <<>>
              THEN fault' = "assert" /\ main' = "panicked"
              ELSE /\ fault' = "none" /\ main' = "run"
                   /\ memory' = input
                   /\ program_counter' = 0
                   /\ Len(register_file') = 256
                   /\ \A k \in 1..256 : register_file'[k] = 0]_vars
    /\ [](fault = "assert" =>
              /\ main = "panicked" /\ mem0 = <<>>
              /\ total = 0 /\ remaining = 0 /\ cycles = 0
              /\ ibytes = <<>> /\ instr = NoInstr /\ output = <<>>)
    /\ [][fault = "assert" => UNCHANGED vars]_vars

\* Machine::new has been called on an empty buffer, and has panicked
C26_Witness == main = "panicked" /\ fault = "assert" /\ input = <<>> /\ Len(args) = 2

\* a wrong number of arguments, or a third argument other than --assemble
Malformed == Len(args) \notin {2, 3} \/ (Len(args) = 3 /\ At(args, 2) # "--assemble")

\* C29 as claimed: on every malformed combination of arguments main prints the
\* usage text and returns; it neither panics nor assembles, constructs or runs
\* anything on the way.
C29_MalformedArgumentsPrintUsage ==
    Malformed =>
        /\ main \in {"start", "read", "third", "returned"}
        /\ main = "returned" => printed = <<"Usage:">>
        /\ main # "returned" => printed = <<>>
        /\ mem0 = <<>> /\ memory = <<>> /\ total = 0 /\ remaining = 0 /\ output = <<>>

\* the number of bytes the claim gives each family of instruction
ConsumedBytes ==
    [f \in {"Output", "OutputW"} |-> 1]
    @@ [f \in {"LoadMem", "LoadMemW", "StoreMem", "StoreMemW", "Jmp", "Jo"} |-> 3]
    @@ [f \in {"Op", "OpW"} |-> 2]
    @@ [f \in {"OpImm"} |-> 6]
    @@ [f \in {"OpImmW"} |-> 10]

\* the bytes read so far are those at positions (p + i) mod len, p the position
\* of the opcode byte, and the program counter is p plus their number, mod len
ReadCircularly ==
    /\ \A i \in 0..(Len(ibytes) - 1) : ibytes[i + 1] = At(memory, (ipos + i) % Len(memory))
    /\ program_counter = (ipos + Len(ibytes)) % Len(memory)

\* C30: fetch is circular. An instruction whose opcode byte is at p consumes
\* L bytes by family (1, 3, 2, 6 or 10), the byte i of them read at (p + i) mod
\* len, and leaves the program counter at (p + L) mod len; the read of the byte
\* at len - 1 sets the program counter to 0; all this also in a memory shorter
\* than L.
C30_CircularFetch ==
    /\ []((Constructed /\ fault = "none" /\ ibytes # <<>>) => ReadCircularly)
    /\ []((Constructed /\ instr # NoInstr) => Len(ibytes) = ConsumedBytes[instr.family])
    /\ []((Constructed /\ fault = "none" /\ ibytes # <<>> /\ instr = NoInstr) =>
              Len(ibytes) < ConsumedBytes[family(byte_to_nibbles(ibytes[1])[1])])
    /\ [][(FetchByte /\ program_counter = Len(memory) - 1) => program_counter' = 0]_vars

\* a ten-byte instruction fetched from a memory of three bytes, its opcode byte
\* not at the start: every byte of memory was read at least three times
C30_Witness ==
    /\ instr # NoInstr
    /\ instr.family = "OpImmW"
    /\ Len(memory) = 3
    /\ ipos = 2
    /\ Len(ibytes) = 10
    /\ program_counter = 0

\* the steps the machine of an instance has completed
StepsDone(inst) == inst.iters * steps_per_iter + inst.steps

\* the machine that ran alone for k steps on the program
Alone(program, k) == run(new(program), k)

\* the machine's part of the output of an instance
MachineBytes(inst) == SubSeq(inst.machine.output, 1, Len(Alone(inst.program, StepsDone(inst)).output))

\* C27: machines share no mutable state. Under every interleaving of the
\* workers, also one that leaves a machine between its fetch and its execute,
\* the memory, program counter, registers and output of each machine after
\* its k-th step are those of the machine that ran alone for k steps.
C27_InstancesIndependent ==
    \A j \in DOMAIN population :
        LET inst == population[j]
            alone == Alone(inst.program, StepsDone(inst))
        IN  /\ (inst.phase = "run" /\ inst.instr = NoInstr) => inst.machine = alone
            /\ (inst.phase = "run" /\ inst.instr # NoInstr) =>
                   /\ inst.machine = fetch(alone).m
                   /\ inst.instr = fetch(alone).i
            /\ inst.phase \in {"pad", "done"} =>
                   /\ inst.machine.memory = alone.memory
                   /\ inst.machine.program_counter = alone.program_counter
                   /\ inst.machine.register_file = alone.register_file
                   /\ MachineBytes(inst) = alone.output

\* three machines at different steps, one of them between fetch and execute,
\* one with registers and memory it has written
C27_Witness ==
    /\ Len(population) = 3
    /\ StepsDone(population[1]) = 1
    /\ population[1].instr # NoInstr
    /\ StepsDone(population[2]) = 3
    /\ population[2].machine.memory # population[2].program
    /\ population[2].machine.register_file # NoMachine.register_file
    /\ StepsDone(population[3]) = 2
    /\ population[3].phase = "run"

\* the call of Instance::new has ended
Ended(inst) == inst.phase \in {"done", "panicked"}

\* the output is the machine's bytes as they were at the last batch boundary,
\* then zeros only
PaddedMachineBytes(inst) ==
    /\ SubSeq(inst.machine.output, 1, inst.boundary)
           = Alone(inst.program, StepsDone(inst)).output
    /\ \A k \in (inst.boundary + 1)..Len(inst.machine.output) : inst.machine.output[k] = 0

\* C28: the budget of Instance::new bounds the evaluation. Every call ends,
\* and only a call on an empty program ends in a panic; its machine makes at
\* most max_iters batches of steps_per_iter steps; run is called again only
\* while the output at the batch boundary is not longer than
\* OUTPUT_PREVIEW_LENGTH, and never after the first boundary where it is; the
\* output returned is at least OUTPUT_PREVIEW_LENGTH and at most
\* OUTPUT_PREVIEW_LENGTH + 2 * steps_per_iter long, the machine's bytes first
\* and unchanged, zeros after them.
C28_BudgetBoundsEvaluation ==
    /\ \A j \in Workers : <>(j \in DOMAIN population => Ended(population[j]))
    /\ [](\A j \in DOMAIN population :
            LET inst == population[j]
            IN  /\ inst.phase = "panicked" => inst.program = <<>>
                /\ inst.iters <= max_iters /\ inst.steps <= steps_per_iter
                /\ StepsDone(inst) <= max_iters * steps_per_iter
                /\ inst.phase = "run" =>
                       inst.boundary <= OUTPUT_PREVIEW_LENGTH /\ inst.iters < max_iters
                /\ inst.phase \in {"pad", "done"} =>
                       \/ inst.boundary > OUTPUT_PREVIEW_LENGTH
                       \/ inst.iters = max_iters
                /\ inst.phase = "done" =>
                       /\ Len(inst.machine.output) >= OUTPUT_PREVIEW_LENGTH
                       /\ Len(inst.machine.output) <= OUTPUT_PREVIEW_LENGTH + 2 * steps_per_iter
                       /\ PaddedMachineBytes(inst))
    /\ [][\A j \in DOMAIN population :
             population[j].phase \in {"pad", "done"} =>
                 /\ population'[j].phase \in {"pad", "done"}
                 /\ StepsDone(population'[j]) = StepsDone(population[j])
                 /\ population'[j].boundary = population[j].boundary]_vars

\* one call returned the longest output there can be, three bytes of its first
\* batch and four of its second; another, on a program that writes nothing,
\* ran all its batches and returned zeros
C28_Witness ==
    /\ Len(population) = 2
    /\ population[1].phase = "done"
    /\ population[1].iters = 2
    /\ Len(population[1].machine.output) = OUTPUT_PREVIEW_LENGTH + 2 * steps_per_iter
    /\ population[2].phase = "done"
    /\ population[2].iters = max_iters
    /\ population[2].boundary = 0
    /\ Len(population[2].machine.output) = OUTPUT_PREVIEW_LENGTH

\* the indices of memory a store of width bytes at address may write
Window(address, width, len) == {(address + i) % len : i \in 0..(width - 1)}

\* the indices at which two memories of one length differ
Changed(before, after) == {k \in 0..(Len(before) - 1) : At(before, k) # At(after, k)}

\* C31: memory keeps its length, and only stores change it. After a StoreMem
\* or StoreMemW at address A only cells (A + i) mod len, i below the width of
\* the operand, differ from before, and the register file is as before; after
\* every other instruction memory is as before; between instructions (the
\* reads of a fetch, the calls of run) memory does not change either.
C31_MemoryFrame ==
    /\ [](Constructed => Len(memory) = Len(mem0))
    /\ [](JustExecuted =>
            /\ Len(memory) = Len(Before.memory)
            /\ last.i.family = "StoreMem" =>
                   /\ Changed(Before.memory, memory) \subseteq Window(last.i.addr, 4, Len(memory))
                   /\ register_file = Before.register_file
            /\ last.i.family = "StoreMemW" =>
                   /\ Changed(Before.memory, memory) \subseteq Window(last.i.addr, 8, Len(memory))
                   /\ register_file = Before.register_file
            /\ last.i.family \notin {"StoreMem", "StoreMemW"} => memory = Before.memory)
    /\ [][instr = NoInstr => memory' = memory]_vars

\* a wide store in a memory longer than its window that changed some cells of
\* the window and no other
C31_Witness ==
    /\ JustExecuted
    /\ last.i.family = "StoreMemW"
    /\ Len(memory) > 8
    /\ Changed(Before.memory, memory) # {}
    /\ Changed(Before.memory, memory) # Window(last.i.addr, 8, Len(memory))

\* the bytes of the register a store wrote, most significant first, as they
\* were in the register file before the store
StoredBytes(width) == [i \in 0..(width - 1) |-> At(Before.register_file, last.i.a * width + i)]

\* every cell of the window holds the byte with the greatest i that maps to it
LastByteWins(width) ==
    \A c \in Window(last.i.addr, width, Len(memory)) :
        At(memory, c) = StoredBytes(width)[Greatest({i \in 0..(width - 1) :
                                                      (last.i.addr + i) % Len(memory) = c})]

\* the window read back byte by byte is the bytes stored
ReadBack(width) ==
    \A i \in 0..(width - 1) :
        At(memory, (last.i.addr + i) % Len(memory)) = StoredBytes(width)[i]

\* C32: a store followed by a load at the same address round-trips when the
\* memory is at least as long as the operand. Right after StoreMem (StoreMemW)
\* of value V at A in a memory of 4 (8) bytes or more, also with a window that
\* wraps, read_memory (read_memory_wide) at A returns V; in every memory each
\* cell (A + i) mod len keeps the byte with the greatest i that maps to it.
C32_StoreLoadRoundTrip ==
    /\ (JustExecuted /\ last.i.family = "StoreMem") =>
           /\ LastByteWins(4)
           /\ Len(memory) >= 4 =>
                  /\ ReadBack(4)
                  /\ read_memory(memory, last.i.addr) = read_register(Before.register_file, last.i.a)
    /\ (JustExecuted /\ last.i.family = "StoreMemW") =>
           /\ LastByteWins(8)
           /\ Len(memory) >= 8 =>
                  /\ ReadBack(8)
                  /\ read_memory_wide(memory, last.i.addr)
                         = read_register_wide(Before.register_file, last.i.a)

\* a narrow store of a value that is not zero whose window wraps past the end
\* of a memory of more than four bytes
C32_Witness ==
    /\ JustExecuted
    /\ last.i.family = "StoreMem"
    /\ Len(memory) >= 4
    /\ (last.i.addr % Len(memory)) + 4 > Len(memory)
    /\ read_memory(memory, last.i.addr) # <<0, 0>>
    /\ memory # Before.memory

\* stores into memories shorter than the operand after which the load does not
\* return the value stored
CollidingNarrow ==
    /\ JustExecuted /\ last.i.family = "StoreMem" /\ Len(memory) < 4
    /\ read_memory(memory, last.i.addr) # read_register(Before.register_file, last.i.a)

CollidingWide ==
    /\ JustExecuted /\ last.i.family = "StoreMemW" /\ Len(memory) < 8
    /\ read_memory_wide(memory, last.i.addr) # read_register_wide(Before.register_file, last.i.a)

\* the machine of an instance is between two instructions of a run call
BetweenSteps(inst) == inst.phase = "run" /\ inst.instr = NoInstr

Narrow(i) == i.family \in {"Output", "LoadMem", "StoreMem", "Jo", "Op", "OpImm"}
Wide(i) == i.family \in {"OutputW", "LoadMemW", "StoreMemW", "OpW", "OpImmW"}

\* the indices at which the register file differs from the one before the
\* instruction executed last
WrittenRegisterBytes ==
    {k \in 0..(RegisterFileSize - 1) : At(register_file, k) # At(Before.register_file, k)}

\* C34: register ids are four bits wide, so a narrow instruction writes only
\* bytes 0..63 of the register file and a wide one only bytes 0..127; bytes
\* 128..255 are 0 in every state; and every byte a narrow instruction reads or
\* writes is below 64, so no narrow register shows a byte of the wide
\* registers 8..15 (bytes 64..127).
C34_UpperRegisterFileUnused ==
    /\ \A k \in 128..(Len(register_file) - 1) : At(register_file, k) = 0
    /\ (JustExecuted /\ Narrow(last.i)) => WrittenRegisterBytes \subseteq 0..63
    /\ (JustExecuted /\ Wide(last.i)) => WrittenRegisterBytes \subseteq 0..127
    /\ (instr # NoInstr /\ Narrow(instr)) => RegisterIndices \subseteq 0..63
    /\ (instr # NoInstr /\ Wide(instr)) => RegisterIndices \subseteq 0..127

\* wide register 15 was loaded from memory: byte 127, the highest any
\* instruction writes, is not 0
C34_Witness ==
    /\ JustExecuted
    /\ last.i.family = "LoadMemW"
    /\ last.i.a = 15
    /\ At(register_file, 127) # 0
    /\ 127 \in WrittenRegisterBytes

\* Not or Neg was the operation of the instruction executed last; its operand
\* is the immediate, or register b as it was, and its result is in register a
Complemented ==
    /\ JustExecuted
    /\ last.i.family \in {"Op", "OpW", "OpImm", "OpImmW"}
    /\ last.i.op \in {"Not", "Neg"}

OperandWidth == IF last.i.family \in {"Op", "OpImm"} THEN 4 ELSE 8

OperandBytesBefore ==
    IF last.i.family \in {"OpImm", "OpImmW"} THEN SubSeq(last.bytes, 3, Len(last.bytes))
    ELSE RegisterBytes(Before.register_file, last.i.b * OperandWidth, OperandWidth)

ResultBytes == RegisterBytes(register_file, last.i.a * OperandWidth, OperandWidth)

\* the complement of every bit of the bytes
Complement(bytes) == Tuple([k \in 1..Len(bytes) |-> 255 - bytes[k]])

\* C35: Neg and Not are the same function. At both widths the result of
\* either on b is the bitwise complement of b, which is MAX - b, a difference
\* that never underflows; and Neg of Neg of b is b.
C35_NegIsNot ==
    /\ Complemented =>
           /\ ResultBytes = Complement(OperandBytesBefore)
           /\ Same(Sum(Number(ResultBytes), Number(OperandBytesBefore)),
                   Number(Tuple([k \in 1..OperandWidth |-> 255])))
           /\ AtMost(Number(OperandBytesBefore), Number(Tuple([k \in 1..OperandWidth |-> 255])))
    /\ (Complemented /\ total = 2 /\ Before.program_counter = 0
           /\ Len(mem0) = OperandWidth + 4
           /\ decode_operation(mem0[1] % 32) \in {"Not", "Neg"}) =>
           ResultBytes = SubSeq(mem0, 3, OperandWidth + 2)

\* negimmw r1 r2 1 and then negw r1 r1 were executed: register 1 is 1 again
C35_Witness ==
    /\ Complemented
    /\ total = 2
    /\ last.i.family = "OpW"
    /\ last.i.op = "Neg"
    /\ mem0 = <<226, 18, 0, 0, 0, 0, 0, 0, 0, 1, 162, 17>>
    /\ ResultBytes = <<0, 0, 0, 0, 0, 0, 0, 1>>

\* C36: mutation keeps a program non-empty. From a non-empty program the
\* calls of mutate_program never leave an empty one and none of them panics on
\* an empty range or an index outside the program, so Machine::new accepts
\* the result; a call changes the length by one at most, and shortens only a
\* program longer than 16.
C36_MutationKeepsNonEmpty ==
    /\ [](mutation.initial # <<>> => mutation.p # <<>> /\ mutation.state # "panicked")
    /\ [][/\ Len(mutation'.p) \in {Len(mutation.p) - 1, Len(mutation.p), Len(mutation.p) + 1}
          /\ Len(mutation'.p) < Len(mutation.p) => Len(mutation.p) > 16]_vars

\* a program of 17 bytes has lost one and then kept its 16 through the other
\* calls, and the machine was constructed on it
C36_Witness ==
    /\ Len(mutation.initial) = 17
    /\ Len(mutation.p) = 16
    /\ mutation.calls = mutation_amount
    /\ mutation.state = "constructed"

\* the output of the instance under the pointer
HoveredOutput == population[audio_queue.hovered.some + 1].output

\* a step of show_instance with the pointer over an instance
Hovers ==
    /\ audio_queue'.hovered # None
    /\ population' = population
    /\ aplay_writer' = aplay_writer

\* C37, as claimed: the audio queue plays the instance under the pointer. The
\* buffer sent last is the output of the instance hovered, also on the first
\* hover after mutate has replaced the population; and a hover sends exactly
\* when the instance hovered is not the one whose output was sent last.
C37_HoveredInstancePlays ==
    /\ [](audio_queue.hovered # None => audio_queue.sent = Some(HoveredOutput))
    /\ [][Hovers =>
             (Len(audio_queue'.sender) = Len(audio_queue.sender) + 1
                 <=> audio_queue.sent # Some(HoveredOutput'))]_vars

\* the buffer the writer is playing
Playing == aplay_writer.current_data.some

\* a step of the writer that takes a buffer from the channel, one that writes
\* bytes of the current buffer, and one that ends the current buffer
Receives == Len(audio_queue'.sender) < Len(audio_queue.sender)
WritesData == Len(aplay_writer'.written) > Len(aplay_writer.written)
Finishes ==
    /\ aplay_writer.current_data # None
    /\ aplay_writer'.current_data = None

\* C38, as claimed: in the writer thread the buffer sent last wins. A buffer
\* taken from the channel becomes current and is played from index 0, and
\* nothing is written while a buffer is pending; the bytes written of the
\* current buffer are its first bytes in order, at most chunk_size of them in
\* a step; and a buffer that is not superseded has been written completely,
\* all its L bytes, when the writer drops it and goes back to silence.
C38_LastBufferWinsAndPlaysWhole ==
    /\ [][Receives =>
             /\ aplay_writer'.current_data = Some(Head(audio_queue.sender))
             /\ aplay_writer'.current_data_index = 0
             /\ aplay_writer'.written = <<>>]_vars
    /\ [][WritesData =>
             /\ audio_queue.sender = <<>>
             /\ Len(aplay_writer'.written) - Len(aplay_writer.written) <= chunk_size]_vars
    /\ [](aplay_writer.current_data # None =>
             aplay_writer.written = SubSeq(Playing, 1, Len(aplay_writer.written)))
    /\ [][Finishes => aplay_writer'.written = Playing]_vars
    /\ [](aplay_writer.silence > 0 => aplay_writer.current_data = None)

\* C39: when a label is defined more than once its last definition wins for
\* every use of the name, before, between or after the definitions: each use
\* holds the big-endian offset of the last line that defines its label; and
\* the text after a label on its line is not assembled.
C39_LastDefinitionWins ==
    /\ Assembled =>
          \A k \in 1..Len(assembler.label_uses) :
              LET defined == DefinedAt(file.content, assembler.label_uses[k][1])
              IN  /\ defined # {}
                  /\ UseBytes(k) = <<Greatest(defined) \div 256, Greatest(defined) % 256>>
    /\ (Assembled /\ file.content = RedefinedText) =>
          input = <<96, 0, 7, 113, 0, 7, 1, 34, 0, 7>>

\* the text with label a at offsets 3 and 7 is assembled: its three uses hold 7
C39_Witness ==
    /\ Assembled
    /\ file.content = RedefinedText
    /\ DefinedAt(file.content, <<"a">>) = {3, 7}
    /\ Len(assembler.label_uses) = 3
    /\ \A k \in 1..3 : UseBytes(k) = <<0, 7>>

====
